---------------------------- MODULE Spec2Model ----------------------------
(***************************************************************************)
(* Model of the telegram audio bot: the URL validator (app/utils/          *)
(* url_parser.py), the per-user sliding-window rate limiter (app/utils/    *)
(* rate_limiter.py) and the retrying fetch client (app/utils/              *)
(* http_client.py).  Text is modelled as sequences of one-character        *)
(* strings so that parsing, lower-casing and the regular expressions are   *)
(* computed character by character, as the code computes them.             *)
(***************************************************************************)
EXTENDS Integers, Sequences, FiniteSets, TLC

VARIABLES
    \* ---- URL validator (url_parser.py, handlers/audio.py, orchestrator.py)
    req,        \* how the inbound text was put together (see Text)
    upc,        \* "input" | "validated" | "detected" | "extracted"
    vres,       \* outcome of validate_url
    platform,   \* outcome of detect_platform: "spotify" | "youtube" | "none"
    xres,       \* outcome of the platform's id extraction
    \* ---- RateLimiter (rate_limiter.py)
    clock,      \* what time.monotonic() returns now
    _max,       \* RateLimiter._max
    _window,    \* RateLimiter._window
    _buckets,   \* RateLimiter._buckets: user id -> timestamps, oldest first
    hist,       \* history: the times of every accepted check of each user
    lastOf,     \* history: the latest check of each user
    cur,        \* history: the user of the most recent check, 0 before any
    prev,       \* history: lastOf[cur] as it was before the most recent check
    rejects,    \* history: the rejected checks in a row of user cur, up to the latest check
    \* ---- fetch client (http_client.py: _request_with_retry)
    hpc,        \* "idle" | "loop" | "request" | "sleep" | "done"
    attempts,   \* the attempts parameter
    attempt,    \* the loop variable
    requests,   \* history: how many times session.request was called
    last_exc,   \* last_exc
    waits,      \* history: the arguments of asyncio.sleep, in order
    log,        \* history: what each request met, in order
    outcome,    \* how the call ended
    url_host,   \* host of the URL the request in flight is at (<<>>: none)
    redirects,  \* redirect responses the request in flight has met
    contacted,  \* history: the hosts a request was sent to
    checked,    \* history: the hosts _check_redirect has examined
    \* ---- requests past the gates (handlers/audio.py, services/*.py)
    ppc,        \* position of each request in handle_url / process_url
    purl,       \* the text of each request, as an index of PipelineUrls
    ptrack,     \* <<platform, track id>> once the id is extracted
    cached,     \* what get_cached returned to the request
    looked,     \* history: the file get_cached found under the final name
    prior,      \* history: at the lookup, the size another request had
                \* committed for the same track on a miss, -1 if none had
    meta,       \* the metadata fetch: "none" | "ok" | "failed"
    tools,      \* history: the external tools the request started
    tmp,        \* the temp directory of each request
    everTmp,    \* history: whether the request called mkdtemp
    ytdlp,      \* the yt-dlp child process: "none" | "running" | "exited"
    produced,   \* history: the size of the output ffmpeg finished, or -1
    result,     \* how process_url ended
    chat,       \* what the user sees: the status message and the audio
    cachefs,    \* the files of CACHE_DIR, by name
    \* ---- YouTubeService (services/youtube.py: _iso_duration_to_ms)
    dpc,        \* "idle" | "call" | "done"
    dreq,       \* how the duration string was put together (see DurationText)
    duration_ms, \* what _iso_duration_to_ms returned, -1 before it has
    \* ---- downloader (services/downloader.py: download_audio)
    dlpc,       \* "idle" | "wait" | "done"
    dlreq,      \* how the wait for yt-dlp ends (see DownloadRuns)
    dlres,      \* what download_audio returned or raised
    \* ---- the gates of handle_url (handlers/audio.py)
    gpc,        \* "idle" | "replied" | "accepted" | "session" | "pipeline"
    gmsg,       \* the latest message: its sender and its text
    gres,       \* what the gates did with it
    gbefore,    \* history: the sender's bucket when the message arrived
    gsession,   \* whether build_session was called for it
    gstarted    \* whether process_url was called for it

uvars == <<req, upc, vres, platform, xres>>
rvars == <<clock, _max, _window, _buckets, hist, lastOf, cur, prev, rejects>>
pvars == <<url_host, redirects, contacted, checked>>
hvars == <<hpc, attempts, attempt, requests, last_exc, waits, log, outcome, pvars>>
ovars == <<ppc, purl, ptrack, cached, looked, prior, meta, tools, tmp, everTmp,
           ytdlp, produced, result, chat, cachefs>>
dvars == <<dpc, dreq, duration_ms>>
lvars == <<dlpc, dlreq, dlres>>
gvars == <<gpc, gmsg, gres, gbefore, gsession, gstarted>>
evars == <<dvars, lvars, gvars>>
vars == <<uvars, rvars, hvars, ovars, evars>>

-----------------------------------------------------------------------------
(* Generic helpers on integers and character sequences                      *)

Min(S) == CHOOSE m \in S : \A k \in S : m <= k
Max(S) == CHOOSE m \in S : \A k \in S : m >= k

Repeat(c, n) == [i \in 1..n |-> c]

LowerChars == <<"a","b","c","d","e","f","g","h","i","j","k","l","m",
                "n","o","p","q","r","s","t","u","v","w","x","y","z">>
UpperChars == <<"A","B","C","D","E","F","G","H","I","J","K","L","M",
                "N","O","P","Q","R","S","T","U","V","W","X","Y","Z">>
Lower == {LowerChars[i] : i \in 1..26}
Upper == {UpperChars[i] : i \in 1..26}
Digit == {"0","1","2","3","4","5","6","7","8","9"}
Alpha == Lower \cup Upper
Alnum == Alpha \cup Digit
\* str.strip() with no argument removes whitespace
Whitespace == {" ", "\n", "\t", "\r"}

\* str.lower() on one character
lowerChar(c) == IF c \in Upper
                THEN LowerChars[CHOOSE i \in 1..26 : UpperChars[i] = c]
                ELSE c
\* str.lower()
lower(s) == [i \in 1..Len(s) |-> lowerChar(s[i])]

\* s[i:i+len(p)] == p   (i is 1-based)
StartsWithAt(s, i, p) ==
    /\ i >= 1
    /\ i + Len(p) - 1 <= Len(s)
    /\ \A k \in 1..Len(p) : s[i + k - 1] = p[k]

\* s[i:]  (i is 1-based)
From(s, i) == SubSeq(s, i, Len(s))

\* str.find(p) from position `from`: the least 1-based index, 0 when absent
Find(s, p, from) ==
    LET hits == {i \in from..Len(s) : StartsWithAt(s, i, p)}
    IN  IF hits = {} THEN 0 ELSE Min(hits)

\* least index >= from whose character is in the set cs, 0 when absent
FindAny(s, cs, from) ==
    LET hits == {i \in from..Len(s) : s[i] \in cs}
    IN  IF hits = {} THEN 0 ELSE Min(hits)

\* str.rfind(c): the greatest index, 0 when absent
RFind(s, c) ==
    LET hits == {i \in 1..Len(s) : s[i] = c}
    IN  IF hits = {} THEN 0 ELSE Max(hits)

\* number of leading characters of s that are in cs
LeadRun(s, cs) == Max({k \in 0..Len(s) : \A i \in 1..k : s[i] \in cs})
\* number of trailing characters of s that are in cs
TrailRun(s, cs) == Max({k \in 0..Len(s) : \A i \in 1..k : s[Len(s) + 1 - i] \in cs})

\* the number of characters of cs that s has from position i on
RunFrom(s, i, cs) ==
    Max({k \in 0..(Len(s) + 1 - i) : \A j \in 0..(k - 1) : s[i + j] \in cs})

\* str.lstrip(chars): drops every leading character that is in the set
lstrip(s, cs) == From(s, LeadRun(s, cs) + 1)

\* str.strip()
strip(s) ==
    LET a == LeadRun(s, Whitespace)
    IN  IF a = Len(s) THEN <<>>
        ELSE SubSeq(s, a + 1, Len(s) - TrailRun(s, Whitespace))

-----------------------------------------------------------------------------
(* urllib.parse.urlparse, as far as url_parser.py reads its result:         *)
(* scheme, netloc, query and the hostname property                          *)

SchemeChars == Alnum \cup {"+", "-", "."}

\* the result of urlparse, or failed = TRUE where urlparse raises ValueError.
\* Every position is an index into url itself.
urlparse(url) ==
    LET n == Len(url)
        i == Find(url, <<":">>, 1)
        hasScheme == /\ i > 1
                     /\ url[1] \in Alpha
                     /\ \A k \in 1..(i - 1) : url[k] \in SchemeChars
        scheme == IF hasScheme THEN lower(SubSeq(url, 1, i - 1)) ELSE <<>>
        \* where the text after "scheme:" starts
        p == IF hasScheme THEN i + 1 ELSE 1
        hasNetloc == StartsWithAt(url, p, <<"/", "/">>)
        \* _splitnetloc: the netloc ends at the first of / ? #
        delim == IF hasNetloc THEN FindAny(url, {"/", "?", "#"}, p + 2) ELSE 0
        netloc == IF ~hasNetloc THEN <<>>
                  ELSE SubSeq(url, p + 2, IF delim = 0 THEN n ELSE delim - 1)
        \* where the text after the netloc starts
        a == IF ~hasNetloc THEN p ELSE IF delim = 0 THEN n + 1 ELSE delim
        open == \E k \in 1..Len(netloc) : netloc[k] = "["
        close == \E k \in 1..Len(netloc) : netloc[k] = "]"
        \* the fragment is cut off at the first #, the query starts after
        \* the first ? before it
        hash == Find(url, <<"#">>, a)
        e == IF hash = 0 THEN n ELSE hash - 1
        qm == Find(url, <<"?">>, a)
        query == IF qm = 0 \/ qm > e THEN <<>> ELSE SubSeq(url, qm + 1, e)
    IN  [failed |-> open # close, scheme |-> scheme, netloc |-> netloc,
         query |-> query]

\* ParseResult.hostname: userinfo and port dropped, brackets removed,
\* lower-cased; <<>> stands for None
hostname(netloc) ==
    LET at == RFind(netloc, "@")
        hostinfo == From(netloc, at + 1)
        br == Find(hostinfo, <<"[">>, 1)
        bracketed == From(hostinfo, br + 1)
        cl == Find(bracketed, <<"]">>, 1)
        col == Find(hostinfo, <<":">>, 1)
        host == IF br # 0
                THEN (IF cl = 0 THEN bracketed ELSE SubSeq(bracketed, 1, cl - 1))
                ELSE (IF col = 0 THEN hostinfo ELSE SubSeq(hostinfo, 1, col - 1))
    IN  lower(host)

\* _safe_parse: None (ok = FALSE) when urlparse raises or there is no netloc
_safe_parse(url) ==
    LET p == urlparse(url)
    IN  [ok |-> ~p.failed /\ p.netloc # <<>>, scheme |-> p.scheme,
         netloc |-> p.netloc, query |-> p.query]

-----------------------------------------------------------------------------
(* Constants of url_parser.py                                               *)

S_http == <<"h", "t", "t", "p">>
S_https == <<"h", "t", "t", "p", "s">>
H_open_spotify_com == <<"o", "p", "e", "n", ".", "s", "p", "o", "t", "i", "f", "y", ".", "c", "o", "m">>
H_www_youtube_com == <<"w", "w", "w", ".", "y", "o", "u", "t", "u", "b", "e", ".", "c", "o", "m">>
H_youtube_com == <<"y", "o", "u", "t", "u", "b", "e", ".", "c", "o", "m">>
H_youtu_be == <<"y", "o", "u", "t", "u", ".", "b", "e">>
H_m_youtube_com == <<"m", ".", "y", "o", "u", "t", "u", "b", "e", ".", "c", "o", "m">>
H_music_youtube_com == <<"m", "u", "s", "i", "c", ".", "y", "o", "u", "t", "u", "b", "e", ".", "c", "o", "m">>

_SPOTIFY_HOSTS == {H_open_spotify_com}
_YOUTUBE_HOSTS == {H_www_youtube_com, H_youtube_com, H_youtu_be,
                   H_m_youtube_com, H_music_youtube_com}
_ALLOWED_HOSTS == _SPOTIFY_HOSTS \cup _YOUTUBE_HOSTS

MaxUrlLen == 2048

\* _PRIVATE_HOST_RE.match(host):
\* ^(localhost|127\.|10\.|192\.168\.|172\.(1[6-9]|2[0-9]|3[01])\.|::1|0\.0\.0\.0)
_PRIVATE_HOST_RE(host) ==
    \/ StartsWithAt(host, 1, <<"l", "o", "c", "a", "l", "h", "o", "s", "t">>)
    \/ StartsWithAt(host, 1, <<"1", "2", "7", ".">>)
    \/ StartsWithAt(host, 1, <<"1", "0", ".">>)
    \/ StartsWithAt(host, 1, <<"1", "9", "2", ".", "1", "6", "8", ".">>)
    \/ /\ StartsWithAt(host, 1, <<"1", "7", "2", ".">>)
       /\ Len(host) >= 7
       /\ \/ host[5] = "1" /\ host[6] \in {"6", "7", "8", "9"}
          \/ host[5] = "2" /\ host[6] \in Digit
          \/ host[5] = "3" /\ host[6] \in {"0", "1"}
       /\ host[7] = "."
    \/ StartsWithAt(host, 1, <<":", ":", "1">>)
    \/ StartsWithAt(host, 1, <<"0", ".", "0", ".", "0", ".", "0">>)

\* the result of a function that returns a string or raises
Ok(v) == [ok |-> TRUE, val |-> v, err |-> "", msg |-> ""]
Raise(e, m) == [ok |-> FALSE, val |-> <<>>, err |-> e, msg |-> m]
NoResult == [ok |-> FALSE, val |-> <<>>, err |-> "", msg |-> "not run"]

-----------------------------------------------------------------------------
(* url_parser.py: validate_url, detect_platform and the id extraction       *)

\* validate_url with the private-host pattern applied to the lower-cased
\* netloc (userinfo and port included) instead of parsed.hostname
validate_url_denyOnNetloc(url) ==
    CHOOSE r \in {
        IF Len(u) > MaxUrlLen
        THEN Raise("URLValidationError", "URL too long")
        ELSE CHOOSE q \in {
            IF ~parsed.ok
            THEN Raise("URLValidationError", "Malformed URL")
            ELSE IF parsed.scheme \notin {S_http, S_https}
            THEN Raise("URLValidationError", "Only http/https URLs are accepted")
            ELSE IF _PRIVATE_HOST_RE(lower(parsed.netloc))
            THEN Raise("URLValidationError", "Private/loopback addresses are not allowed")
            ELSE IF lower(parsed.netloc) \notin _ALLOWED_HOSTS
            THEN Raise("URLValidationError", "Host is not an allowed platform")
            ELSE Ok(u)
          : parsed \in {_safe_parse(u)} } : TRUE
      : u \in {strip(url)} } : TRUE

\* validate_url with the allowlist applied to parsed.hostname (userinfo and
\* port dropped) instead of the whole lower-cased netloc
validate_url_allowOnHostname(url) ==
    CHOOSE r \in {
        IF Len(u) > MaxUrlLen
        THEN Raise("URLValidationError", "URL too long")
        ELSE CHOOSE q \in {
            IF ~parsed.ok
            THEN Raise("URLValidationError", "Malformed URL")
            ELSE IF parsed.scheme \notin {S_http, S_https}
            THEN Raise("URLValidationError", "Only http/https URLs are accepted")
            ELSE IF _PRIVATE_HOST_RE(hostname(parsed.netloc))
            THEN Raise("URLValidationError", "Private/loopback addresses are not allowed")
            ELSE IF hostname(parsed.netloc) \notin _ALLOWED_HOSTS
            THEN Raise("URLValidationError", "Host is not an allowed platform")
            ELSE Ok(u)
          : parsed \in {_safe_parse(u)} } : TRUE
      : u \in {strip(url)} } : TRUE

\* validate_url with the length limit off by one (len(url) > 2049)
validate_url_lenOffByOne(url) ==
    CHOOSE r \in {
        IF Len(u) > MaxUrlLen + 1
        THEN Raise("URLValidationError", "URL too long")
        ELSE CHOOSE q \in {
            IF ~parsed.ok
            THEN Raise("URLValidationError", "Malformed URL")
            ELSE IF parsed.scheme \notin {S_http, S_https}
            THEN Raise("URLValidationError", "Only http/https URLs are accepted")
            ELSE IF _PRIVATE_HOST_RE(hostname(parsed.netloc))
            THEN Raise("URLValidationError", "Private/loopback addresses are not allowed")
            ELSE IF lower(parsed.netloc) \notin _ALLOWED_HOSTS
            THEN Raise("URLValidationError", "Host is not an allowed platform")
            ELSE Ok(u)
          : parsed \in {_safe_parse(u)} } : TRUE
      : u \in {strip(url)} } : TRUE

\* validate_url(url); the isinstance test is decided by the type of url,
\* which is always a string here.  u is url.strip() and parsed is
\* _safe_parse(u), each computed once.
validate_url(url) ==
    CHOOSE r \in {
        IF Len(u) > MaxUrlLen
        THEN Raise("URLValidationError", "URL too long")
        ELSE CHOOSE q \in {
            IF ~parsed.ok
            THEN Raise("URLValidationError", "Malformed URL")
            ELSE IF parsed.scheme \notin {S_http, S_https}
            THEN Raise("URLValidationError", "Only http/https URLs are accepted")
            ELSE IF _PRIVATE_HOST_RE(hostname(parsed.netloc))
            THEN Raise("URLValidationError", "Private/loopback addresses are not allowed")
            ELSE IF lower(parsed.netloc) \notin _ALLOWED_HOSTS
            THEN Raise("URLValidationError", "Host is not an allowed platform")
            ELSE Ok(u)
          : parsed \in {_safe_parse(u)} } : TRUE
      : u \in {strip(url)} } : TRUE

\* detect_platform(url): "none" stands for None
detect_platform(url) ==
    LET www == {"w", "."}
    IN  CHOOSE r \in {
          IF ~parsed.ok THEN "none"
          ELSE IF \E h \in _SPOTIFY_HOSTS :
                    lstrip(h, www) = lstrip(lower(parsed.netloc), www)
          THEN "spotify"
          ELSE IF \E h \in _YOUTUBE_HOSTS :
                    lstrip(h, www) = lstrip(lower(parsed.netloc), www)
          THEN "youtube"
          ELSE "none"
        : parsed \in {_safe_parse(url)} } : TRUE

SpotifyIdLen == 22
YoutubeIdLen == 11
YoutubeIdChars == Alnum \cup {"_", "-"}

\* s[i:i+n] consists of n characters of cs
RunAt(s, i, n, cs) ==
    /\ i + n - 1 <= Len(s)
    /\ \A k \in 0..(n - 1) : s[i + k] \in cs

\* where group 1 of _SPOTIFY_TRACK_RE starts when the pattern matches at i,
\* 0 when it does not:
\* open\.spotify\.com/(?:intl-[a-z]{2}/)?track/([A-Za-z0-9]{22})
SpotifyMatchAt(s, i) ==
    LET j == i + Len(<<"o", "p", "e", "n", ".", "s", "p", "o", "t", "i", "f", "y", ".", "c", "o", "m", "/">>)
        intl == /\ StartsWithAt(s, j, <<"i", "n", "t", "l", "-">>)
                /\ RunAt(s, j + 5, 2, Lower)
                /\ StartsWithAt(s, j + 7, <<"/">>)
        track(k) == /\ StartsWithAt(s, k, <<"t", "r", "a", "c", "k", "/">>)
                    /\ RunAt(s, k + 6, SpotifyIdLen, Alnum)
    IN  IF ~StartsWithAt(s, i, <<"o", "p", "e", "n", ".", "s", "p", "o", "t", "i", "f", "y", ".", "c", "o", "m", "/">>) THEN 0
        ELSE IF intl /\ track(j + 8) THEN j + 8 + 6
        ELSE IF track(j) THEN j + 6
        ELSE 0

\* _SPOTIFY_TRACK_RE.search(url).group(1), <<>> when there is no match
_SPOTIFY_TRACK_RE(url) ==
    LET cand == {i \in 1..Len(url) : url[i] = "o"}
        hits == {i \in cand : SpotifyMatchAt(url, i) # 0}
    IN  IF hits = {} THEN <<>>
        ELSE LET g == SpotifyMatchAt(url, Min(hits))
             IN  SubSeq(url, g, g + SpotifyIdLen - 1)

\* the alternatives of _YOUTUBE_ID_RE: (?:v=|youtu\.be/|/embed/|/shorts/)
YoutubePrefixes == << <<"v", "=">>, <<"y", "o", "u", "t", "u", ".", "b", "e", "/">>, <<"/", "e", "m", "b", "e", "d", "/">>, <<"/", "s", "h", "o", "r", "t", "s", "/">> >>

\* where group 1 of _YOUTUBE_ID_RE starts when the pattern matches at i,
\* 0 when it does not; the alternatives are tried in order
YoutubeMatchAt(s, i) ==
    LET ok(n) == /\ StartsWithAt(s, i, YoutubePrefixes[n])
                 /\ RunAt(s, i + Len(YoutubePrefixes[n]), YoutubeIdLen, YoutubeIdChars)
        alts == {n \in 1..Len(YoutubePrefixes) : ok(n)}
    IN  IF alts = {} THEN 0 ELSE i + Len(YoutubePrefixes[Min(alts)])

\* _YOUTUBE_ID_RE.search(url).group(1), <<>> when there is no match
_YOUTUBE_ID_RE(url) ==
    LET cand == {i \in 1..Len(url) : url[i] \in {"v", "y", "/"}}
        hits == {i \in cand : YoutubeMatchAt(url, i) # 0}
    IN  IF hits = {} THEN <<>>
        ELSE LET g == YoutubeMatchAt(url, Min(hits))
             IN  SubSeq(url, g, g + YoutubeIdLen - 1)

\* parse_qs(query)["v"][0], <<>> when "v" is not a key: the query is cut at
\* every "&", a field without "=" or with an empty value is dropped, and
\* the first remaining field named v gives the value (the alphabet of the
\* inputs has no "%" and no "+", the characters parse_qs decodes)
QueryV(query) ==
    LET n == Len(query)
        starts == {1} \cup {i + 1 : i \in {k \in 1..n : query[k] = "&"}}
        endOf(a) == LET amp == Find(query, <<"&">>, a)
                    IN  IF amp = 0 THEN n ELSE amp - 1
        isV(a) == /\ StartsWithAt(query, a, <<"v", "=">>)
                  /\ endOf(a) >= a + 2
        vs == {a \in starts : isV(a)}
    IN  IF vs = {} THEN <<>>
        ELSE SubSeq(query, Min(vs) + 2, endOf(Min(vs)))

\* extract_spotify_track_id(url)
extract_spotify_track_id(url) ==
    LET m == _SPOTIFY_TRACK_RE(url)
    IN  IF m = <<>>
        THEN Raise("URLValidationError", "Could not extract Spotify track ID from URL")
        ELSE Ok(m)

\* extract_youtube_video_id(url): the v parameter of the query when it is
\* exactly 11 id characters, else the first match of _YOUTUBE_ID_RE
extract_youtube_video_id(url) ==
    CHOOSE r \in {
        IF /\ vid # <<>>
           /\ Len(vid) = YoutubeIdLen
           /\ \A k \in 1..Len(vid) : vid[k] \in YoutubeIdChars
        THEN Ok(vid)
        ELSE CHOOSE q \in {
            IF m = <<>>
            THEN Raise("URLValidationError", "Could not extract YouTube video ID from URL")
            ELSE Ok(m)
          : m \in {_YOUTUBE_ID_RE(url)} } : TRUE
      : vid \in { CHOOSE v \in { IF parsed.ok THEN QueryV(parsed.query) ELSE <<>>
                                 : parsed \in {_safe_parse(url)} } : TRUE } } : TRUE

-----------------------------------------------------------------------------
(* The inbound texts the validator is run on                                *)

ID22 == <<"4", "u", "L", "U", "6", "h", "M", "C", "j", "M", "I", "7", "5", "M", "1", "A", "2", "t", "K", "U", "Q", "C">>
ID11 == <<"d", "Q", "w", "4", "w", "9", "W", "g", "X", "c", "Q">>

Prefixes == { <<"h", "t", "t", "p", "s", ":", "/", "/">>, <<"h", "t", "t", "p", ":", "/", "/">>, <<"H", "T", "T", "P", "S", ":", "/", "/">>, <<"f", "t", "p", ":", "/", "/">>, <<"/", "/">>, <<"h", "t", "t", "p", "s", ":">> }
Users == { <<>>, <<"u", "@">> }
Ports == { <<>>, <<":", "4", "4", "3">> }

H_OPEN_SPOTIFY_COM == <<"O", "P", "E", "N", ".", "S", "P", "O", "T", "I", "F", "Y", ".", "C", "O", "M">>
PublicHosts == { H_open_spotify_com, H_OPEN_SPOTIFY_COM, H_www_youtube_com,
                 H_youtube_com, H_youtu_be, H_music_youtube_com,
                 <<"o", "p", "e", "n", ".", "s", "p", "o", "t", "i", "f", "y", ".", "c", "o", "m", ".", "e", "v", "i", "l", ".", "e", "x", "a", "m", "p", "l", "e">>, <<"x", "o", "p", "e", "n", ".", "s", "p", "o", "t", "i", "f", "y", ".", "c", "o", "m">>,
                 <<"w", "w", "w", "w", ".", "y", "o", "u", "t", "u", "b", "e", ".", "c", "o", "m">>, <<"e", "v", "i", "l", ".", "c", "o", "m">>, <<"1", "7", "2", ".", "3", "2", ".", "0", ".", "1">>, <<>> }
\* hosts that start with one of the private/loopback patterns
PrivateHosts == { <<"l", "o", "c", "a", "l", "h", "o", "s", "t">>, <<"L", "O", "C", "A", "L", "H", "O", "S", "T">>, <<"1", "2", "7", ".", "0", ".", "0", ".", "1">>, <<"1", "0", ".", "0", ".", "0", ".", "1">>,
                  <<"1", "9", "2", ".", "1", "6", "8", ".", "1", ".", "1">>, <<"1", "7", "2", ".", "1", "6", ".", "0", ".", "1">>, <<"1", "7", "2", ".", "3", "1", ".", "0", ".", "1">>,
                  <<"[", ":", ":", "1", "]">>, <<"0", ".", "0", ".", "0", ".", "0">> }
Hosts == PublicHosts \cup PrivateHosts

T_track == <<"/", "t", "r", "a", "c", "k", "/", "4", "u", "L", "U", "6", "h", "M", "C", "j", "M", "I", "7", "5", "M", "1", "A", "2", "t", "K", "U", "Q", "C">>
T_intl_track == <<"/", "i", "n", "t", "l", "-", "d", "e", "/", "t", "r", "a", "c", "k", "/", "4", "u", "L", "U", "6", "h", "M", "C", "j", "M", "I", "7", "5", "M", "1", "A", "2", "t", "K", "U", "Q", "C", "?", "s", "i", "=", "a", "b">>
T_playlist == <<"/", "p", "l", "a", "y", "l", "i", "s", "t", "/", "a", "b", "c">>
T_watch == <<"/", "w", "a", "t", "c", "h", "?", "v", "=", "d", "Q", "w", "4", "w", "9", "W", "g", "X", "c", "Q">>
T_watch_share == <<"/", "w", "a", "t", "c", "h", "?", "f", "e", "a", "t", "u", "r", "e", "=", "s", "h", "a", "r", "e", "&", "v", "=", "d", "Q", "w", "4", "w", "9", "W", "g", "X", "c", "Q">>
T_short == <<"/", "d", "Q", "w", "4", "w", "9", "W", "g", "X", "c", "Q">>
T_embed == <<"/", "e", "m", "b", "e", "d", "/", "d", "Q", "w", "4", "w", "9", "W", "g", "X", "c", "Q">>
T_shorts == <<"/", "s", "h", "o", "r", "t", "s", "/", "d", "Q", "w", "4", "w", "9", "W", "g", "X", "c", "Q">>
\* tails whose id segment is one character longer or shorter than an id
T_track_long == <<"/", "t", "r", "a", "c", "k", "/", "4", "u", "L", "U", "6", "h", "M", "C", "j", "M", "I", "7", "5", "M", "1", "A", "2", "t", "K", "U", "Q", "C", "Z">>
T_track_short == <<"/", "t", "r", "a", "c", "k", "/", "4", "u", "L", "U", "6", "h", "M", "C", "j", "M", "I", "7", "5", "M", "1", "A", "2", "t", "K", "U", "Q">>
T_watch_long == <<"/", "w", "a", "t", "c", "h", "?", "v", "=", "d", "Q", "w", "4", "w", "9", "W", "g", "X", "c", "Q", "Z">>
T_short_long == <<"/", "d", "Q", "w", "4", "w", "9", "W", "g", "X", "c", "Q", "Z">>
T_embed_short == <<"/", "e", "m", "b", "e", "d", "/", "d", "Q", "w", "4", "w", "9", "W", "g", "X", "c">>
Tails == { <<>>, T_track, T_intl_track, T_playlist, T_watch, T_watch_share,
           T_short, T_embed, T_shorts,
           T_track_long, T_track_short, T_watch_long, T_short_long, T_embed_short }

\* how far below and above MaxUrlLen the long texts reach
MaxSlack == 1
\* how many whitespace characters may surround a long text
MaxWs == 1

P_https == <<"h", "t", "t", "p", "s", ":", "/", "/">>
\* length of P_https \o H_open_spotify_com \o T_intl_track
LongCoreLen == Len(P_https) + Len(H_open_spotify_com) + Len(T_intl_track)

ShortInputs ==
    [prefix : Prefixes, user : Users, host : Hosts, port : Ports,
     tail : Tails, pad : {0}, lead : {0}, trail : {0}]
    \cup
    [prefix : Prefixes, user : Users, host : Hosts, port : Ports,
     tail : Tails, pad : {0}, lead : {1}, trail : {1}]

LongInputs ==
    [prefix : {P_https}, user : {<<>>}, host : {H_open_spotify_com},
     port : {<<>>}, tail : {T_intl_track},
     pad : {MaxUrlLen + d - LongCoreLen : d \in (0 - MaxSlack)..MaxSlack},
     lead : 0..MaxWs, trail : 0..MaxWs]

Inputs == ShortInputs \cup LongInputs

\* the authority the text was written with
Authority(r) == r.user \o r.host \o r.port

\* the text without the whitespace around it
Core(r) == r.prefix \o Authority(r) \o r.tail \o Repeat("a", r.pad)

\* the message text handed to validate_url
Text(r) == Repeat(" ", r.lead) \o Core(r) \o Repeat("\n", r.trail)

-----------------------------------------------------------------------------
(* The validator's steps, as handle_url and the orchestrator run them       *)

\* the validator before any text has arrived
IdleUrl ==
    /\ req = [prefix |-> <<>>, user |-> <<>>, host |-> <<>>, port |-> <<>>,
              tail |-> <<>>, pad |-> 0, lead |-> 0, trail |-> 0]
    /\ upc = "idle"
    /\ vres = NoResult
    /\ platform = "none"
    /\ xres = NoResult

InitUrl ==
    /\ req \in Inputs
    /\ upc = "input"
    /\ vres = NoResult
    /\ platform = "none"
    /\ xres = NoResult

\* handle_url: clean_url = validate_url(text)
Validate ==
    /\ upc = "input"
    /\ \E text \in {Text(req)} : vres' = validate_url(text)
    /\ upc' = "validated"
    /\ UNCHANGED <<req, platform, xres>>
    /\ UNCHANGED <<rvars, hvars, ovars, evars>>

\* handle_url: platform = detect_platform(clean_url), after validation passed
Detect ==
    /\ upc = "validated"
    /\ vres.ok
    /\ platform' = detect_platform(vres.val)
    /\ upc' = "detected"
    /\ UNCHANGED <<req, vres, xres>>
    /\ UNCHANGED <<rvars, hvars, ovars, evars>>

\* Orchestrator.process_url: the id extraction of the detected platform
Extract ==
    /\ upc = "detected"
    /\ platform # "none"
    /\ xres' = IF platform = "spotify"
               THEN extract_spotify_track_id(vres.val)
               ELSE extract_youtube_video_id(vres.val)
    /\ upc' = "extracted"
    /\ UNCHANGED <<req, vres, platform>>
    /\ UNCHANGED <<rvars, hvars, ovars, evars>>

NextUrl == Validate \/ Detect \/ Extract

-----------------------------------------------------------------------------
(* Properties of the validator                                              *)

\* C1: once a text written with a private/loopback host (PrivateHosts) has
\* been validated, the outcome is a URLValidationError, whatever the scheme,
\* userinfo, port or path of the text, and the rejection is made by the
\* private-host gate or a gate before it, never as late as the allowlist.
C1_PrivateHostRejected ==
    (upc # "input" /\ req.host \in PrivateHosts) =>
        /\ ~vres.ok
        /\ vres.err = "URLValidationError"
        /\ vres.msg # "Host is not an allowed platform"

\* a private host with userinfo, a port and the path of a track is rejected
\* by the private-host gate
C1_Witness ==
    /\ upc = "validated"
    /\ req.host = <<"1", "2", "7", ".", "0", ".", "0", ".", "1">>
    /\ req.prefix = P_https
    /\ req.user # <<>>
    /\ req.port # <<>>
    /\ req.tail = T_track
    /\ vres.msg = "Private/loopback addresses are not allowed"

\* C2: once a text has been validated whose authority (userinfo, host and
\* port, lower-cased) is not one of the allowlisted hostnames, the outcome
\* is a URLValidationError.
C2_NotAllowlistedRejected ==
    (upc # "input" /\ lower(Authority(req)) \notin _ALLOWED_HOSTS) =>
        (~vres.ok /\ vres.err = "URLValidationError")

\* a host that extends an allowlisted name is rejected by the allowlist
C2_Witness ==
    /\ upc = "validated"
    /\ req.host = <<"o", "p", "e", "n", ".", "s", "p", "o", "t", "i", "f", "y", ".", "c", "o", "m", ".", "e", "v", "i", "l", ".", "e", "x", "a", "m", "p", "l", "e">>
    /\ req.prefix = P_https
    /\ req.tail = T_track
    /\ ~vres.ok
    /\ vres.msg = "Host is not an allowed platform"

\* C3 as stated: every text longer than 2048 characters, counting the
\* whitespace around it, is rejected.
C3_LongInputRejected ==
    (upc # "input" /\ Len(Text(req)) > MaxUrlLen) => ~vres.ok

\* C3 as amended: every text whose length without the surrounding whitespace
\* exceeds 2048 characters is rejected as too long.
C3_LongAfterStripRejected ==
    (upc # "input" /\ Len(Core(req)) > MaxUrlLen) =>
        /\ ~vres.ok
        /\ vres.err = "URLValidationError"
        /\ vres.msg = "URL too long"

\* a text of 2049 characters plus whitespace has been rejected
C3_Witness ==
    /\ upc = "validated"
    /\ Len(Core(req)) = MaxUrlLen + 1
    /\ req.lead > 0
    /\ ~vres.ok
    /\ vres.msg = "URL too long"

\* the native id the text was written with, where the text embeds one in a
\* form of the platform pl: after /track/ for spotify; in v=, after
\* youtu.be/, /embed/ or /shorts/ for youtube
EmbeddedId(r, pl) ==
    IF pl = "spotify" /\ r.tail \in {T_track, T_intl_track} THEN ID22
    ELSE IF /\ pl = "youtube"
            /\ \/ r.tail \in {T_watch, T_watch_share, T_embed, T_shorts}
               \/ r.tail = T_short /\ lower(r.host) = H_youtu_be
    THEN ID11
    ELSE <<>>

\* C4: when the id extraction of the detected platform has run on the URL
\* validate_url returned, and the text embeds a well-formed native id of that
\* platform, the extraction returned exactly that id.
C4_RoundTrip ==
    (upc = "extracted" /\ EmbeddedId(req, platform) # <<>>) =>
        (xres.ok /\ xres.val = EmbeddedId(req, platform))

\* the id characters the text was written with right after the marker m,
\* up to the first character that is not in cs; <<>> without the marker
SegmentAfter(s, m, cs) ==
    LET i == Find(s, m, 1)
        a == i + Len(m)
    IN  IF i = 0 THEN <<>> ELSE SubSeq(s, a, a + RunFrom(s, a, cs) - 1)

\* the id segment of the text for the platform pl: what follows track/ for
\* spotify; what follows v=, /embed/ or /shorts/, or the host youtu.be, for
\* youtube
IdSegment(r, pl) ==
    IF pl = "spotify"
    THEN SegmentAfter(r.tail, <<"t", "r", "a", "c", "k", "/">>, Alnum)
    ELSE IF Find(r.tail, <<"v", "=">>, 1) # 0
         THEN SegmentAfter(r.tail, <<"v", "=">>, YoutubeIdChars)
    ELSE IF Find(r.tail, <<"/", "e", "m", "b", "e", "d", "/">>, 1) # 0
         THEN SegmentAfter(r.tail, <<"/", "e", "m", "b", "e", "d", "/">>, YoutubeIdChars)
    ELSE IF Find(r.tail, <<"/", "s", "h", "o", "r", "t", "s", "/">>, 1) # 0
         THEN SegmentAfter(r.tail, <<"/", "s", "h", "o", "r", "t", "s", "/">>, YoutubeIdChars)
    ELSE IF lower(r.host) = H_youtu_be
         THEN SegmentAfter(r.tail, <<"/">>, YoutubeIdChars)
    ELSE <<>>

\* C28: when the id extraction of the detected platform has returned an id,
\* the id segment of the text has exactly the required length (22 for
\* spotify, 11 for youtube) and the id returned is that segment, never a
\* part of it; otherwise the extraction raised URLValidationError.
C28_ExactLengthId ==
    upc = "extracted" =>
        LET seg == IdSegment(req, platform)
            len == IF platform = "spotify" THEN SpotifyIdLen ELSE YoutubeIdLen
        IN  /\ xres.ok => (Len(seg) = len /\ xres.val = seg)
            /\ ~xres.ok => xres.err = "URLValidationError"

-----------------------------------------------------------------------------
(* rate_limiter.py: the sliding-window RateLimiter                          *)

\* settings.RATE_LIMIT_REQUESTS and settings.RATE_LIMIT_WINDOW_SECONDS, the
\* defaults of RateLimiter.__init__
RATE_LIMIT_REQUESTS == 3
RATE_LIMIT_WINDOW_SECONDS == 60

\* the users that send messages
UserIds == {1, 2}
\* rejected checks in a row are counted up to here
MaxStreak == 2
\* the largest max_requests and window_seconds a limiter is built with
MaxRequests == 2
MaxWindow == 2
\* the clock stops here
MaxTime == 3

\* the record of a check: when it was made, whether it was accepted, and on
\* a rejection the retry_after of RateLimitExceeded
NoCheck == [made |-> FALSE, at |-> 0, ok |-> TRUE, retry_after |-> 0]
CheckAt(t, ok, ra) == [made |-> TRUE, at |-> t, ok |-> ok, retry_after |-> ra]

\* the rejected checks in a row of the user of the latest check, that
\* check included when it is rejected: n were counted for user last, whose
\* check was the latest so far, and before is the record of this user's
\* check before this one
Streak(n, last, before, user_id, ok) ==
    LET base == IF last = user_id /\ ~before.ok THEN n ELSE 0
    IN  IF ok THEN base ELSE Min({base + 1, MaxStreak})

\* self._buckets[user_id] of a defaultdict(deque): an absent key reads as an
\* empty deque
Bucket(buckets, user_id) ==
    IF user_id \in DOMAIN buckets THEN buckets[user_id] ELSE <<>>

\* while bucket and bucket[0] < window_start: bucket.popleft()
\* (mutations: the loop with <= in place of <, and the loop never entered)
Evict_inclusive(bucket, window_start) ==
    SelectSeq(bucket, LAMBDA t : t > window_start)

Evict_none(bucket, window_start) == bucket

RECURSIVE Evict(_, _)
Evict(bucket, window_start) ==
    IF bucket # <<>> /\ Head(bucket) < window_start
    THEN Evict(Tail(bucket), window_start)
    ELSE bucket

\* RateLimiter.check with the eviction run over every bucket of the map
\* instead of the caller's bucket alone
check_sweepAll(buckets, max, window, user_id, now) ==
    LET window_start == now - window
        swept == [v \in DOMAIN buckets \cup {user_id} |->
                     Evict(Bucket(buckets, v), window_start)]
        bucket == swept[user_id]
    IN  IF Len(bucket) >= max
        THEN [buckets |-> swept, ok |-> FALSE,
              retry_after |-> bucket[1] - window_start]
        ELSE [buckets |-> (user_id :> Append(bucket, now)) @@ swept,
              ok |-> TRUE, retry_after |-> 0]

\* RateLimiter.check with bucket.appendleft(now) in place of
\* bucket.append(now)
check_appendLeft(buckets, max, window, user_id, now) ==
    LET window_start == now - window
        bucket == Evict(Bucket(buckets, user_id), window_start)
    IN  IF Len(bucket) >= max
        THEN [buckets |-> (user_id :> bucket) @@ buckets, ok |-> FALSE,
              retry_after |-> bucket[1] - window_start]
        ELSE [buckets |-> (user_id :> (<<now>> \o bucket)) @@ buckets,
              ok |-> TRUE, retry_after |-> 0]

\* RateLimiter.check with the timestamp recorded before the limit is
\* tested, so that a rejected check records one too
check_recordRejected(buckets, max, window, user_id, now) ==
    LET window_start == now - window
        bucket == Evict(Bucket(buckets, user_id), window_start)
    IN  IF Len(bucket) >= max
        THEN [buckets |-> (user_id :> Append(bucket, now)) @@ buckets,
              ok |-> FALSE, retry_after |-> bucket[1] - window_start]
        ELSE [buckets |-> (user_id :> Append(bucket, now)) @@ buckets,
              ok |-> TRUE, retry_after |-> 0]

\* RateLimiter.check(user_id) at time now: the map of buckets it leaves, and
\* whether it returned (ok) or raised RateLimitExceeded(retry_after).  The
\* bucket read from the defaultdict is stored in the map, and the eviction
\* stays in it when the check raises.
check(buckets, max, window, user_id, now) ==
    LET window_start == now - window
        bucket == Evict(Bucket(buckets, user_id), window_start)
    IN  IF Len(bucket) >= max
        THEN [buckets |-> (user_id :> bucket) @@ buckets, ok |-> FALSE,
              retry_after |-> bucket[1] - window_start]
        ELSE [buckets |-> (user_id :> Append(bucket, now)) @@ buckets,
              ok |-> TRUE, retry_after |-> 0]

\* the module-level singleton rate_limiter = RateLimiter() before any check
IdleRate ==
    /\ clock = 0
    /\ _max = RATE_LIMIT_REQUESTS
    /\ _window = RATE_LIMIT_WINDOW_SECONDS
    /\ _buckets = <<>>
    /\ hist = [u \in UserIds |-> <<>>]
    /\ lastOf = [u \in UserIds |-> NoCheck]
    /\ cur = 0
    /\ prev = NoCheck
    /\ rejects = 0

\* RateLimiter(max_requests, window_seconds)
InitRate ==
    /\ clock = 0
    /\ _max \in 1..MaxRequests
    /\ _window \in 1..MaxWindow
    /\ _buckets = <<>>
    /\ hist = [u \in UserIds |-> <<>>]
    /\ lastOf = [u \in UserIds |-> NoCheck]
    /\ cur = 0
    /\ prev = NoCheck
    /\ rejects = 0

\* time.monotonic() moves on
Tick ==
    /\ clock < MaxTime
    /\ clock' = clock + 1
    /\ UNCHANGED <<_max, _window, _buckets, hist, lastOf, cur, prev, rejects>>
    /\ UNCHANGED <<uvars, hvars, ovars, evars>>

\* rate_limiter.check(user_id), called by handle_url
Check(user_id) ==
    /\ \E r \in {check(_buckets, _max, _window, user_id, clock)} :
          /\ _buckets' = r.buckets
          /\ hist' = IF r.ok THEN [hist EXCEPT ![user_id] = Append(@, clock)]
                     ELSE hist
          /\ lastOf' = [lastOf EXCEPT
                           ![user_id] = CheckAt(clock, r.ok, r.retry_after)]
          /\ rejects' = Streak(rejects, cur, lastOf[user_id], user_id, r.ok)
    /\ cur' = user_id
    /\ prev' = lastOf[user_id]
    /\ UNCHANGED <<clock, _max, _window>>
    /\ UNCHANGED <<uvars, hvars, ovars, evars>>

NextRate == Tick \/ \E u \in UserIds : Check(u)

-----------------------------------------------------------------------------
(* Properties of the rate limiter                                           *)

\* the accepted checks of user u with a timestamp in [t - window, t], among
\* the first n the user made
Recent(u, n, t) ==
    {i \in 1..n : hist[u][i] >= t - _window /\ hist[u][i] <= t}

\* how many accepted checks the user of the most recent check had made
\* before it
Before == Len(hist[cur]) - (IF lastOf[cur].ok THEN 1 ELSE 0)

\* C5: for every user and every trailing window [t - window, t], the accepted
\* checks of the user with a timestamp in the window are at most max; and a
\* check made when max accepted checks of the user lie in its window raises
\* RateLimitExceeded.
C5_WindowNeverExceeded ==
    /\ \A u \in UserIds : \A t \in 0..clock :
          Cardinality(Recent(u, Len(hist[u]), t)) <= _max
    /\ cur # 0 =>
          (Cardinality(Recent(cur, Before, lastOf[cur].at)) >= _max
              => ~lastOf[cur].ok)

\* a user with max = 2 accepted checks at one instant has been rejected
C5_Witness ==
    /\ cur # 0
    /\ _max = 2
    /\ ~lastOf[cur].ok
    /\ Len(hist[cur]) = 2
    /\ hist[cur][1] = lastOf[cur].at

\* the key and the bucket of user v in the map
Slot(v) == <<v \in DOMAIN _buckets, Bucket(_buckets, v)>>

\* C6: a check of one user, accepted or rejected, leaves the key and the
\* bucket of every other user as they were; and its outcome is decided by
\* the user's own accepted checks and the clock: it is accepted exactly when
\* fewer than max of them lie in [now - window, now].
C6_OtherBucketsUntouched ==
    [][ /\ \A v \in UserIds : (v # cur') => (Slot(v)' = Slot(v))
        /\ (lastOf' # lastOf) =>
              (lastOf'[cur'].ok =
                  (Cardinality(Recent(cur', Len(hist[cur']), clock)) < _max)) ]_rvars

\* one user has just been rejected while the other, whose bucket holds an
\* expired timestamp, was accepted earlier
C6_Witness ==
    /\ cur # 0
    /\ ~lastOf[cur].ok
    /\ \E v \in UserIds \ {cur} :
          /\ lastOf[v].ok /\ lastOf[v].made
          /\ Bucket(_buckets, v) # <<>>
          /\ Bucket(_buckets, v)[1] < clock - _window

\* C7: a check is rejected only when max accepted checks of the user lie in
\* its window: once every earlier accepted check of a user is older than the
\* window, the next max checks of the user are accepted.
C7_AcceptedAfterWindow ==
    cur # 0 =>
        (Cardinality(Recent(cur, Before, lastOf[cur].at)) < _max
            => lastOf[cur].ok)

\* a user made max accepted checks, then, after the window had elapsed since
\* the last of them, max more
C7_Witness ==
    \E u \in UserIds :
        /\ Len(hist[u]) = 2 * _max
        /\ _max = 2
        /\ hist[u][_max] < hist[u][_max + 1] - _window

\* C8: a rejection carries 0 <= retry_after <= window, and a check of the
\* same user made exactly retry_after after the rejection, with no check of
\* that user in between, is accepted.
C8_RetryAfter ==
    cur # 0 =>
        /\ ~lastOf[cur].ok =>
              (0 <= lastOf[cur].retry_after /\ lastOf[cur].retry_after <= _window)
        /\ (prev.made /\ ~prev.ok /\ lastOf[cur].at = prev.at + prev.retry_after)
              => lastOf[cur].ok

\* the accepted timestamps of the user of the most recent check that
\* counted against the limit when the user had reached it: the last max
\* accepted before that check
Block ==
    SubSeq(hist[cur], Before - _max + 1, Before)

\* C32: a rejected check records no timestamp: after it the user's bucket
\* holds the last max accepted timestamps of the user and nothing else;
\* and a check of a user who has reached the limit is accepted as soon as
\* the oldest of those timestamps is older than the window, however many
\* rejected checks of the user came before it.
C32_RejectionsDoNotProlong ==
    (cur # 0 /\ Before >= _max) =>
        /\ ~lastOf[cur].ok => Bucket(_buckets, cur) = Block
        /\ Block[1] < lastOf[cur].at - _window => lastOf[cur].ok

\* a user at the limit was rejected MaxStreak times or more, the last time
\* when the oldest timestamp was exactly window old, and is accepted one
\* tick later
C32_Witness ==
    /\ cur # 0
    /\ Before >= _max
    /\ lastOf[cur].ok
    /\ rejects = MaxStreak
    /\ prev.made /\ ~prev.ok
    /\ prev.at = Block[1] + _window
    /\ lastOf[cur].at = prev.at + 1

-----------------------------------------------------------------------------
(* http_client.py: fetch_json / _request_with_retry                         *)

_RETRYABLE_STATUSES == {429, 500, 502, 503, 504}

\* settings.HTTP_RETRY_ATTEMPTS, the default of the attempts parameter
HTTP_RETRY_ATTEMPTS == 3
\* settings.HTTP_RETRY_BACKOFF = 1.5, kept exact as the fraction 3/2
BackoffNum == 3
BackoffDen == 2
HTTP_RETRY_BACKOFF == <<BackoffNum, BackoffDen>>

\* the largest value of the attempts parameter that is explored
MaxAttempts == 3

\* settings.HTTP_MAX_REDIRECTS, passed as max_redirects
HTTP_MAX_REDIRECTS == 3

\* the host of the URL fetch_json is called with (spotify.py: _API_BASE)
H_api_spotify_com == <<"a", "p", "i", ".", "s", "p", "o", "t", "i", "f", "y", ".", "c", "o", "m">>
\* hosts a Location header can name: a public one and a loopback address
H_cdn_example == <<"c", "d", "n", ".", "e", "x", "a", "m", "p", "l", "e">>
H_loopback == <<"1", "2", "7", ".", "0", ".", "0", ".", "1">>
RedirectTargets == {H_cdn_example, H_loopback}

\* the url of the TraceRequestRedirectParams the client hands to the
\* on_request_redirect hooks: the URL of the request that was answered with
\* the redirect, not the Location the redirect names
TraceRequestRedirectParams_url(requested, location) == requested

\* _check_redirect(session, ctx, params): TRUE when it raises SSRFAttemptError
_check_redirect(params_url_host) == _PRIVATE_HOST_RE(params_url_host)

\* final statuses a request can come back with (redirects are followed inside
\* session.request, so a 3xx seen here is one without a followed Location)
Statuses == {200, 304, 400, 404} \cup _RETRYABLE_STATUSES
\* response bodies; Unread stands for a body the code never reads
Bodies == {"[1]", "[1, 2]", "<html>"}
Unread == ""

\* json.loads, as resp.json(content_type=None) applies it to the body
IsJson(body) == body \in {"[1]", "[1, 2]"}
json(body) == IF body = "[1]" THEN <<1>> ELSE <<1, 2>>

\* exceptions: the type, the HTTP status (HttpError only) and the attempt
\* that raised it (0: created before the loop)
Exc(type, status, at) == [type |-> type, status |-> status, at |-> at]
NoExc == Exc("none", 0, 0)
HttpError(status, at) == Exc("HttpError", status, at)
SSRFAttemptError(at) == Exc("SSRFAttemptError", 0, at)

\* how the call ended
NoOutcome == [kind |-> "none", val |-> <<>>, exc |-> NoExc]
Return(val) == [kind |-> "return", val |-> val, exc |-> NoExc]
Raised(exc) == [kind |-> "raise", val |-> <<>>, exc |-> exc]

\* what one request met
Event(kind, status, body) == [kind |-> kind, status |-> status, body |-> body]

RECURSIVE Pow(_, _)
Pow(b, n) == IF n = 0 THEN 1 ELSE b * Pow(b, n - 1)

\* wait with a linear schedule, backoff * attempt, in place of the power
wait_linear(backoff, attempt_) == <<backoff[1] * attempt_, backoff[2] * attempt_>>

\* wait = backoff ** attempt, as a fraction <<numerator, denominator>>
wait(backoff, attempt_) == <<Pow(backoff[1], attempt_), Pow(backoff[2], attempt_)>>

\* the loop range with one iteration too many: range(1, attempts + 2)
InRange_offByOne(attempt_, attempts_) == 1 <= attempt_ /\ attempt_ <= attempts_ + 1

\* attempt in range(1, attempts + 1)
InRange(attempt_, attempts_) == 1 <= attempt_ /\ attempt_ <= attempts_

\* the response branch with every status of 400 or more retried while
\* attempts remain
OnResponse_retryAnyError(attempt_, attempts_, backoff, status, body) ==
    IF status >= 400 /\ attempt_ < attempts_
    THEN [next |-> "sleep", wait |-> wait(backoff, attempt_),
          read |-> FALSE, out |-> NoOutcome]
    ELSE IF status >= 400
    THEN [next |-> "done", wait |-> <<>>, read |-> TRUE,
          out |-> Raised(HttpError(status, attempt_))]
    ELSE IF IsJson(body)
    THEN [next |-> "done", wait |-> <<>>, read |-> TRUE,
          out |-> Return(json(body))]
    ELSE [next |-> "done", wait |-> <<>>, read |-> TRUE,
          out |-> Raised(Exc("JSONDecodeError", 0, attempt_))]

\* the body of "async with session.request(...) as resp", given the status
\* and the body the response turns out to have
OnResponse(attempt_, attempts_, backoff, status, body) ==
    IF status \in _RETRYABLE_STATUSES /\ attempt_ < attempts_
    THEN [next |-> "sleep", wait |-> wait(backoff, attempt_),
          read |-> FALSE, out |-> NoOutcome]
    ELSE IF status >= 400
    THEN [next |-> "done", wait |-> <<>>, read |-> TRUE,
          out |-> Raised(HttpError(status, attempt_))]
    ELSE IF IsJson(body)
    THEN [next |-> "done", wait |-> <<>>, read |-> TRUE,
          out |-> Return(json(body))]
    ELSE [next |-> "done", wait |-> <<>>, read |-> TRUE,
          out |-> Raised(Exc("JSONDecodeError", 0, attempt_))]

\* no fetch in progress
IdleHttp ==
    /\ hpc = "idle"
    /\ attempts = 0
    /\ attempt = 0
    /\ requests = 0
    /\ last_exc = NoExc
    /\ waits = <<>>
    /\ log = <<>>
    /\ outcome = NoOutcome
    /\ url_host = <<>>
    /\ redirects = 0
    /\ contacted = {}
    /\ checked = {}

\* _request_with_retry entered: last_exc is the placeholder and the loop is
\* at its first iteration.  HTTP_RETRY_ATTEMPTS is an unvalidated integer
\* setting, so 0 is a value it can have.
InitHttp ==
    /\ hpc = "loop"
    /\ attempts \in 0..MaxAttempts
    /\ attempt = 1
    /\ requests = 0
    /\ last_exc = Exc("RuntimeError", 0, 0)
    /\ waits = <<>>
    /\ log = <<>>
    /\ outcome = NoOutcome
    /\ url_host = <<>>
    /\ redirects = 0
    /\ contacted = {}
    /\ checked = {}

\* the loop enters an iteration and issues session.request
Request ==
    /\ hpc = "loop"
    /\ InRange(attempt, attempts)
    /\ hpc' = "request"
    /\ requests' = requests + 1
    /\ url_host' = H_api_spotify_com
    /\ redirects' = 0
    /\ contacted' = contacted \cup {H_api_spotify_com}
    /\ UNCHANGED <<attempts, attempt, last_exc, waits, log, outcome, checked>>
    /\ UNCHANGED <<uvars, rvars, ovars, evars>>

\* the request comes back with a response
Respond(status, body) ==
    /\ hpc = "request"
    /\ \E r \in {OnResponse(attempt, attempts, HTTP_RETRY_BACKOFF, status, body)} :
          /\ hpc' = r.next
          /\ waits' = IF r.next = "sleep" THEN Append(waits, r.wait) ELSE waits
          /\ outcome' = r.out
          /\ log' = Append(log, Event("status", status,
                                      IF r.read THEN body ELSE Unread))
    /\ UNCHANGED <<attempts, attempt, requests, last_exc>>
    /\ UNCHANGED pvars
    /\ UNCHANGED <<uvars, rvars, ovars, evars>>

\* the except branch with last_exc assigned only while it is the placeholder
ConnectionFailure_keepFirst(type) ==
    /\ hpc = "request"
    /\ last_exc' = IF last_exc.at = 0 THEN Exc(type, 0, attempt) ELSE last_exc
    /\ log' = Append(log, Event(type, 0, Unread))
    /\ IF attempt < attempts
       THEN /\ waits' = Append(waits, wait(HTTP_RETRY_BACKOFF, attempt))
            /\ hpc' = "sleep"
            /\ UNCHANGED attempt
       ELSE /\ hpc' = "loop"
            /\ attempt' = attempt + 1
            /\ UNCHANGED waits
    /\ UNCHANGED <<attempts, requests, outcome>>
    /\ UNCHANGED pvars
    /\ UNCHANGED <<uvars, rvars, ovars, evars>>

\* the request, or the reading of the response body, fails with
\* aiohttp.ClientConnectionError or asyncio.TimeoutError
ConnectionFailure(type) ==
    /\ hpc = "request"
    /\ last_exc' = Exc(type, 0, attempt)
    /\ log' = Append(log, Event(type, 0, Unread))
    /\ IF attempt < attempts
       THEN /\ waits' = Append(waits, wait(HTTP_RETRY_BACKOFF, attempt))
            /\ hpc' = "sleep"
            /\ UNCHANGED attempt
       ELSE /\ hpc' = "loop"
            /\ attempt' = attempt + 1
            /\ UNCHANGED waits
    /\ UNCHANGED <<attempts, requests, outcome>>
    /\ UNCHANGED pvars
    /\ UNCHANGED <<uvars, rvars, ovars, evars>>

\* the request is answered with a redirect to location and the hook
\* _check_redirect raises: SSRFAttemptError leaves session.request and, not
\* being caught by the except clause, the call
RedirectBlocked(location) ==
    /\ hpc = "request"
    /\ \E h \in {TraceRequestRedirectParams_url(url_host, location)} :
          /\ _check_redirect(h)
          /\ checked' = checked \cup {h}
    /\ hpc' = "done"
    /\ outcome' = Raised(SSRFAttemptError(attempt))
    /\ log' = Append(log, Event("SSRFAttemptError", 0, Unread))
    /\ UNCHANGED <<attempts, attempt, requests, last_exc, waits>>
    /\ UNCHANGED <<url_host, redirects, contacted>>
    /\ UNCHANGED <<uvars, rvars, ovars, evars>>

\* the request is answered with a redirect, the hook returns, and this is
\* redirect number max_redirects: session.request raises TooManyRedirects,
\* which is not a ClientConnectionError
RedirectLimit(location) ==
    /\ hpc = "request"
    /\ \E h \in {TraceRequestRedirectParams_url(url_host, location)} :
          /\ ~_check_redirect(h)
          /\ checked' = checked \cup {h}
    /\ redirects + 1 >= HTTP_MAX_REDIRECTS
    /\ redirects' = redirects + 1
    /\ hpc' = "done"
    /\ outcome' = Raised(Exc("TooManyRedirects", 0, attempt))
    /\ log' = Append(log, Event("TooManyRedirects", 0, Unread))
    /\ UNCHANGED <<attempts, attempt, requests, last_exc, waits>>
    /\ UNCHANGED <<url_host, contacted>>
    /\ UNCHANGED <<uvars, rvars, ovars, evars>>

\* the request is answered with a redirect, the hook returns, and the
\* client sends the request to the Location
Follow(location) ==
    /\ hpc = "request"
    /\ \E h \in {TraceRequestRedirectParams_url(url_host, location)} :
          /\ ~_check_redirect(h)
          /\ checked' = checked \cup {h}
    /\ redirects + 1 < HTTP_MAX_REDIRECTS
    /\ redirects' = redirects + 1
    /\ url_host' = location
    /\ contacted' = contacted \cup {location}
    /\ UNCHANGED <<hpc, attempts, attempt, requests, last_exc, waits, log, outcome>>
    /\ UNCHANGED <<uvars, rvars, ovars, evars>>

\* asyncio.sleep(wait) returns and the loop goes to its next iteration
Wake ==
    /\ hpc = "sleep"
    /\ hpc' = "loop"
    /\ attempt' = attempt + 1
    /\ UNCHANGED <<attempts, requests, last_exc, waits, log, outcome>>
    /\ UNCHANGED pvars
    /\ UNCHANGED <<uvars, rvars, ovars, evars>>

\* the loop is over: raise last_exc
RaiseLast ==
    /\ hpc = "loop"
    /\ ~InRange(attempt, attempts)
    /\ hpc' = "done"
    /\ outcome' = Raised(last_exc)
    /\ UNCHANGED <<attempts, attempt, requests, last_exc, waits, log>>
    /\ UNCHANGED pvars
    /\ UNCHANGED <<uvars, rvars, ovars, evars>>

NextHttp ==
    \/ Request
    \/ \E status \in Statuses, body \in Bodies : Respond(status, body)
    \/ \E type \in {"ClientConnectionError", "TimeoutError"} : ConnectionFailure(type)
    \/ \E location \in RedirectTargets : RedirectBlocked(location)
    \/ \E location \in RedirectTargets : RedirectLimit(location)
    \/ \E location \in RedirectTargets : Follow(location)
    \/ Wake
    \/ RaiseLast

-----------------------------------------------------------------------------
(* Properties of the fetch client                                           *)

Done == hpc = "done"

RetryableStatus(e) == e.kind = "status" /\ e.status \in _RETRYABLE_STATUSES

\* what holds of every call whatever the list of outcomes is: at most
\* attempts requests, the call has an outcome exactly when it has ended, and
\* a response below 400 with a JSON body ends the call with the parsed body,
\* whatever failures came before it
BoundedAndReturned ==
    /\ requests <= attempts
    /\ Done <=> outcome # NoOutcome
    /\ \A k \in 1..Len(log) :
          (log[k].kind = "status" /\ log[k].status < 400 /\ IsJson(log[k].body))
             => /\ k = Len(log)
                /\ outcome = Return(json(log[k].body))

\* the four outcomes of the contract
FourOutcomes ==
    \/ outcome.kind = "return"
    \/ outcome.exc.type = "HttpError"
    \/ /\ outcome.exc.type \in {"ClientConnectionError", "TimeoutError"}
       /\ outcome.exc.at = attempts
    \/ outcome.exc.type = "SSRFAttemptError"

\* exceptions that _request_with_retry neither retries nor converts
Unretried ==
    \/ /\ outcome.exc.type = "JSONDecodeError"
       /\ log[Len(log)].status < 400
       /\ ~IsJson(log[Len(log)].body)
    \/ outcome.exc.type = "TooManyRedirects"
    \/ outcome.exc.type = "RuntimeError" /\ attempts < 1

\* C9 as stated: whatever the responses and connection failures, a call
\* issues at most attempts requests and ends, with exactly one outcome out of
\* a parsed JSON value, an HttpError, the connection/timeout exception of the
\* final attempt and an SSRF error; a success after transient failures is
\* returned.
C9_FourOutcomes ==
    /\ [](BoundedAndReturned /\ (Done => FourOutcomes))
    /\ [][outcome = NoOutcome]_outcome
    /\ <>Done

\* C9: the same, with the outcomes the code really has: the four above, or
\* an exception that is propagated without a retry (the JSON decode error of
\* a response below 400 whose body is not JSON, TooManyRedirects, and the
\* placeholder RuntimeError when attempts is below 1).
C9_BoundedOneOutcome ==
    /\ [](BoundedAndReturned /\ (Done => (FourOutcomes \/ Unretried)))
    /\ [][outcome = NoOutcome]_outcome
    /\ <>Done

\* the default three attempts: a connection failure, then a retryable status,
\* then a response whose JSON body is returned
C9_Witness ==
    /\ Done
    /\ attempts = HTTP_RETRY_ATTEMPTS
    /\ requests = attempts
    /\ Len(log) = 3
    /\ log[1].kind = "ClientConnectionError"
    /\ RetryableStatus(log[2])
    /\ log[3].kind = "status" /\ log[3].status = 200
    /\ outcome = Return(<<1, 2>>)

NonRetryableError(e) ==
    e.kind = "status" /\ e.status >= 400 /\ e.status \notin _RETRYABLE_STATUSES

ConnectionError(e) == e.kind \in {"ClientConnectionError", "TimeoutError"}

\* what the latest request met
LastEvent == IF log = <<>> THEN Event("none", 0, Unread) ELSE log[Len(log)]

\* C12: a connection or timeout exception on attempt i < attempts is followed
\* by the sleep of backoff^i a retryable status gets and by the request of
\* attempt i + 1; when the final attempt fails this way the call ends with
\* the exception that this final attempt raised.
C12_ConnectionErrorsRetried ==
    /\ [](\A i \in 1..Len(log) :
            ConnectionError(log[i]) =>
               IF i < attempts
               THEN /\ Len(waits) >= i
                    /\ waits[i][1] * Pow(BackoffDen, i) = Pow(BackoffNum, i) * waits[i][2]
                    /\ Len(log) = i =>
                          /\ outcome = NoOutcome
                          /\ hpc \in {"sleep", "loop", "request"}
                          /\ hpc = "loop" => (attempt = i + 1 /\ requests = i)
                          /\ hpc = "request" => (attempt = i + 1 /\ requests = i + 1)
               ELSE /\ i = attempts
                    /\ Len(log) = i
                    /\ Len(waits) = i - 1
                    /\ requests = i
                    /\ \/ hpc = "loop" /\ outcome = NoOutcome
                       \/ Done /\ outcome = Raised(Exc(log[i].kind, 0, i)))
    /\ (hpc = "sleep" /\ ConnectionError(LastEvent))
          ~> (hpc = "request" /\ requests = Len(log) + 1)
    /\ (Len(log) = attempts /\ ConnectionError(LastEvent))
          ~> (Done /\ outcome = Raised(Exc(LastEvent.kind, 0, attempts)))

\* three attempts: a timeout, a connection error, a timeout; the timeout of
\* the third attempt is what the caller gets
C12_Witness ==
    /\ Done
    /\ attempts = 3
    /\ Len(log) = 3
    /\ log[1].kind = "TimeoutError"
    /\ log[2].kind = "ClientConnectionError"
    /\ log[3].kind = "TimeoutError"
    /\ outcome = Raised(Exc("TimeoutError", 0, 3))

\* C13: every host a redirect led the client to was examined by the hook
\* before the client sent a request to it, no private or loopback host is
\* ever sent a request, and an SSRFAttemptError ends the call where it was
\* raised, with no sleep and no request after it.
C13_RedirectTargetChecked ==
    /\ \A h \in contacted : ~_PRIVATE_HOST_RE(h)
    /\ (contacted \ {H_api_spotify_com}) \subseteq checked
    /\ LastEvent.kind = "SSRFAttemptError" =>
          /\ Done
          /\ outcome = Raised(SSRFAttemptError(Len(log)))
          /\ requests = Len(log)
          /\ Len(waits) = Len(log) - 1

-----------------------------------------------------------------------------
(* services/cache.py, services/orchestrator.py, services/downloader.py,     *)
(* services/audio_processor.py and the request handler handle_url           *)
(* (handlers/audio.py) from the point where a message has passed the gates  *)

\* the requests in flight: tasks of one event loop, interleaved at awaits
Requests == {1, 2}

\* the texts of the requests, all accepted by validate_url
U_spotify_track == P_https \o H_open_spotify_com \o T_track
U_spotify_playlist == P_https \o H_open_spotify_com \o T_playlist
U_youtube_short == P_https \o H_youtu_be \o T_short
PipelineUrls == <<U_spotify_track, U_spotify_playlist, U_youtube_short>>

\* settings.MAX_FILE_SIZE_MB and settings.max_file_size_bytes
MAX_FILE_SIZE_MB == 50
max_file_size_bytes == MAX_FILE_SIZE_MB * 1024 * 1024

\* sizes ffmpeg can leave its output with when it exits 0
OutputSizes == {0, 1, max_file_size_bytes, max_file_size_bytes + 1}

\* a file: its size, whether its writer has finished it, and the request
\* whose tool wrote it
File(size, complete, by) == [size |-> size, complete |-> complete, by |-> by]
NoFile == File(-1, FALSE, 0)

\* Optional[Path] None
None == <<>>

\* cache_key: sha256 of "platform:track_id", kept as the pair it hashes
cache_key(platform_, track_id) == <<platform_, track_id>>
\* cached_path: CACHE_DIR / "<key>.mp3"
cached_path(platform_, track_id) == <<cache_key(platform_, track_id), ".mp3">>
\* temp_output_path: CACHE_DIR / "<key>_raw"
temp_output_path(platform_, track_id) == <<cache_key(platform_, track_id), "_raw">>

\* the tracks the texts name and the file names of CACHE_DIR they lead to
Tracks == {<<"spotify", ID22>>, <<"youtube", ID11>>}
CacheNames == {cached_path(t[1], t[2]) : t \in Tracks}
                 \cup {temp_output_path(t[1], t[2]) : t \in Tracks}

\* get_cached with the size test left out
get_cached_noSizeCheck(fs, platform_, track_id) ==
    IF fs[cached_path(platform_, track_id)] # NoFile
    THEN cached_path(platform_, track_id)
    ELSE None

\* get_cached that never finds anything
get_cached_never(fs, platform_, track_id) == None

\* get_cached: the path when the file exists and is not empty
get_cached(fs, platform_, track_id) ==
    IF /\ fs[cached_path(platform_, track_id)] # NoFile
       /\ fs[cached_path(platform_, track_id)].size > 0
    THEN cached_path(platform_, track_id)
    ELSE None

\* store_in_cache with the file moved to temp_output_path
store_in_cache_toRaw(fs, file, platform_, track_id) ==
    [fs EXCEPT ![temp_output_path(platform_, track_id)] = file]

\* store_in_cache: source_path.rename(dest); the directory after the rename
store_in_cache(fs, file, platform_, track_id) ==
    [fs EXCEPT ![cached_path(platform_, track_id)] = file]

\* _check_file_size that never raises
_check_file_size_never(size) == FALSE

\* _check_file_size: TRUE when it unlinks the file and raises
_check_file_size(size) == size > max_file_size_bytes

\* a temp directory: whether it exists and the names of the files in it
NoDir == [exists |-> FALSE, files |-> {}]
EmptyDir == [exists |-> TRUE, files |-> {}]
AddFile(dir, name) == [dir EXCEPT !.files = @ \cup {name}]
DelFile(dir, name) == [dir EXCEPT !.files = @ \ {name}]

\* the finally block of _download_and_process: unlink what iterdir lists,
\* then rmdir, errors swallowed.  raced: a child process that is still
\* running creates a file after the listing, so that rmdir fails
cleanup(dir, raced) ==
    IF raced THEN [exists |-> TRUE, files |-> {"raw_audio.webm.part"}]
    ELSE NoDir

\* how process_url ended
Pending == [kind |-> "none", path |-> None, exc |-> ""]
Returned(path) == [kind |-> "return", path |-> path, exc |-> ""]
Failed(exc) == [kind |-> "raise", path |-> None, exc |-> exc]

\* the text handle_url leaves in the status message for an exception, by the
\* order of its except clauses
HandlerMessage(exc) ==
    IF exc = "PrivateVideoError" THEN "private"
    ELSE IF exc = "GeoBlockedError" THEN "geo_blocked"
    ELSE IF exc = "audio_processor.FileTooLargeError" THEN "too_large"
    ELSE IF exc \in {"DownloadError", "downloader.FileTooLargeError"}
    THEN "download_failed"
    ELSE IF exc = "AudioProcessingError" THEN "processing_failed"
    ELSE "unexpected"

\* no request in flight
IdlePipe ==
    /\ ppc = [r \in Requests |-> "idle"]
    /\ purl = [r \in Requests |-> 1]
    /\ ptrack = [r \in Requests |-> None]
    /\ cached = [r \in Requests |-> None]
    /\ looked = [r \in Requests |-> NoFile]
    /\ prior = [r \in Requests |-> -1]
    /\ meta = [r \in Requests |-> "none"]
    /\ tools = [r \in Requests |-> {}]
    /\ tmp = [r \in Requests |-> NoDir]
    /\ everTmp = [r \in Requests |-> FALSE]
    /\ ytdlp = [r \in Requests |-> "none"]
    /\ produced = [r \in Requests |-> -1]
    /\ result = [r \in Requests |-> Pending]
    /\ chat = [r \in Requests |-> [status |-> "none", audio |-> FALSE]]
    /\ cachefs = [n \in CacheNames |-> NoFile]

\* each request is a message that passed the rate limiter, validate_url and
\* detect_platform; CACHE_DIR is empty
InitPipe ==
    /\ ppc = [r \in Requests |-> "start"]
    /\ purl \in [Requests -> 1..Len(PipelineUrls)]
    /\ ptrack = [r \in Requests |-> None]
    /\ cached = [r \in Requests |-> None]
    /\ looked = [r \in Requests |-> NoFile]
    /\ prior = [r \in Requests |-> -1]
    /\ meta = [r \in Requests |-> "none"]
    /\ tools = [r \in Requests |-> {}]
    /\ tmp = [r \in Requests |-> NoDir]
    /\ everTmp = [r \in Requests |-> FALSE]
    /\ ytdlp = [r \in Requests |-> "none"]
    /\ produced = [r \in Requests |-> -1]
    /\ result = [r \in Requests |-> Pending]
    /\ chat = [r \in Requests |-> [status |-> "none", audio |-> FALSE]]
    /\ cachefs = [n \in CacheNames |-> NoFile]

\* status_msg = await message.reply(_PROCESSING); build_session
Reply(r) ==
    /\ ppc[r] = "start"
    /\ ppc' = [ppc EXCEPT ![r] = "resolve"]
    /\ chat' = [chat EXCEPT ![r].status = "processing"]
    /\ UNCHANGED <<purl, ptrack, cached, looked, prior, meta, tools, tmp,
                   everTmp, ytdlp, produced, result, cachefs>>
    /\ UNCHANGED <<uvars, rvars, hvars, evars>>

\* process_url up to the metadata fetch: the id extraction and get_cached
ResolveIdentity(r) ==
    /\ ppc[r] = "resolve"
    /\ \E url \in {PipelineUrls[purl[r]]} :
       \E pl \in {detect_platform(url)} :
       \E x \in {IF pl = "spotify" THEN extract_spotify_track_id(url)
                                   ELSE extract_youtube_video_id(url)} :
          IF ~x.ok
          THEN /\ result' = [result EXCEPT ![r] = Failed(x.err)]
               /\ ppc' = [ppc EXCEPT ![r] = "returned"]
               /\ UNCHANGED <<ptrack, cached, looked, prior>>
          ELSE /\ ptrack' = [ptrack EXCEPT ![r] = <<pl, x.val>>]
               /\ cached' = [cached EXCEPT ![r] = get_cached(cachefs, pl, x.val)]
               /\ looked' = [looked EXCEPT ![r] = cachefs[cached_path(pl, x.val)]]
               /\ prior' = [prior EXCEPT ![r] =
                     IF \E o \in Requests \ {r} :
                           /\ ptrack[o] = <<pl, x.val>>
                           /\ result[o].kind = "return"
                           /\ cached[o] = None
                     THEN produced[CHOOSE o \in Requests \ {r} :
                                      /\ ptrack[o] = <<pl, x.val>>
                                      /\ result[o].kind = "return"
                                      /\ cached[o] = None]
                     ELSE -1]
               /\ ppc' = [ppc EXCEPT ![r] = "metadata"]
               /\ UNCHANGED result
    /\ UNCHANGED <<purl, meta, tools, tmp, everTmp, ytdlp, produced, chat, cachefs>>
    /\ UNCHANGED <<uvars, rvars, hvars, evars>>

\* the metadata fetch with the cached path returned on a hit even when the
\* fetch failed
FetchMetadata_staleOnHit(r, exc) ==
    /\ ppc[r] = "metadata"
    /\ IF exc # "" /\ cached[r] = None
       THEN /\ meta' = [meta EXCEPT ![r] = "failed"]
            /\ result' = [result EXCEPT ![r] = Failed(exc)]
            /\ ppc' = [ppc EXCEPT ![r] = "returned"]
       ELSE /\ meta' = [meta EXCEPT ![r] = IF exc # "" THEN "failed" ELSE "ok"]
            /\ IF cached[r] # None
               THEN /\ result' = [result EXCEPT ![r] = Returned(cached[r])]
                    /\ ppc' = [ppc EXCEPT ![r] = "returned"]
               ELSE /\ UNCHANGED result
                    /\ ppc' = [ppc EXCEPT ![r] =
                          IF ptrack[r][1] = "spotify" THEN "search"
                                                     ELSE "download_start"]
    /\ UNCHANGED <<purl, ptrack, cached, looked, prior, tools, tmp, everTmp,
                   ytdlp, produced, chat, cachefs>>
    /\ UNCHANGED <<uvars, rvars, hvars, evars>>

\* get_track_metadata / get_video_metadata comes back, and on a hit the
\* cached path is returned
FetchMetadata(r, exc) ==
    /\ ppc[r] = "metadata"
    /\ IF exc # ""
       THEN /\ meta' = [meta EXCEPT ![r] = "failed"]
            /\ result' = [result EXCEPT ![r] = Failed(exc)]
            /\ ppc' = [ppc EXCEPT ![r] = "returned"]
       ELSE /\ meta' = [meta EXCEPT ![r] = "ok"]
            /\ IF cached[r] # None
               THEN /\ result' = [result EXCEPT ![r] = Returned(cached[r])]
                    /\ ppc' = [ppc EXCEPT ![r] = "returned"]
               ELSE /\ UNCHANGED result
                    /\ ppc' = [ppc EXCEPT ![r] =
                          IF ptrack[r][1] = "spotify" THEN "search"
                                                     ELSE "download_start"]
    /\ UNCHANGED <<purl, ptrack, cached, looked, prior, tools, tmp, everTmp,
                   ytdlp, produced, chat, cachefs>>
    /\ UNCHANGED <<uvars, rvars, hvars, evars>>

\* downloader.search_youtube_for_track, from the start of the tool to its end
Search(r, out) ==
    /\ ppc[r] = "search"
    /\ tools' = [tools EXCEPT ![r] = @ \cup {"search"}]
    /\ IF out = "url"
       THEN /\ ppc' = [ppc EXCEPT ![r] = "download_start"]
            /\ UNCHANGED result
       ELSE /\ result' = [result EXCEPT ![r] =
                  Failed(IF out = "empty" THEN "IndexError" ELSE "DownloadError")]
            /\ ppc' = [ppc EXCEPT ![r] = "returned"]
    /\ UNCHANGED <<purl, ptrack, cached, looked, prior, meta, tmp, everTmp,
                   ytdlp, produced, chat, cachefs>>
    /\ UNCHANGED <<uvars, rvars, hvars, evars>>

\* _download_and_process: mkdtemp, then download_audio up to the start of
\* yt-dlp (_check_ytdlp raises when the tool is not installed)
StartDownload(r, installed) ==
    /\ ppc[r] = "download_start"
    /\ everTmp' = [everTmp EXCEPT ![r] = TRUE]
    /\ IF installed
       THEN /\ tmp' = [tmp EXCEPT ![r] = EmptyDir]
            /\ ytdlp' = [ytdlp EXCEPT ![r] = "running"]
            /\ tools' = [tools EXCEPT ![r] = @ \cup {"download"}]
            /\ ppc' = [ppc EXCEPT ![r] = "download"]
            /\ UNCHANGED result
       ELSE /\ tmp' = [tmp EXCEPT ![r] = cleanup(EmptyDir, FALSE)]
            /\ result' = [result EXCEPT ![r] = Failed("DownloadError")]
            /\ ppc' = [ppc EXCEPT ![r] = "returned"]
            /\ UNCHANGED <<ytdlp, tools>>
    /\ UNCHANGED <<purl, ptrack, cached, looked, prior, meta, produced, chat, cachefs>>
    /\ UNCHANGED <<uvars, rvars, hvars, evars>>

\* the running yt-dlp writes into the directory it was given
YtdlpWrites(r) ==
    /\ ytdlp[r] = "running"
    /\ tmp[r].exists
    /\ "raw_audio.webm.part" \notin tmp[r].files
    /\ tmp' = [tmp EXCEPT ![r] = AddFile(@, "raw_audio.webm.part")]
    /\ UNCHANGED <<ppc, purl, ptrack, cached, looked, prior, meta, tools,
                   everTmp, ytdlp, produced, result, chat, cachefs>>
    /\ UNCHANGED <<uvars, rvars, hvars, evars>>

\* a yt-dlp that outlived the wait of download_audio exits
YtdlpExits(r) ==
    /\ ytdlp[r] = "running"
    /\ ppc[r] # "download"
    /\ ytdlp' = [ytdlp EXCEPT ![r] = "exited"]
    /\ UNCHANGED <<ppc, purl, ptrack, cached, looked, prior, meta, tools, tmp,
                   everTmp, produced, result, chat, cachefs>>
    /\ UNCHANGED <<uvars, rvars, hvars, evars>>

\* download_audio from the wait for yt-dlp to its end.  out: "ok" (exit 0,
\* file found), "nofile" (exit 0, nothing found), an error class read from
\* stderr after a non-zero exit, or "timeout" (wait_for gave up; the process
\* is left running).  On an error the finally block of _download_and_process
\* runs at once.
EndDownload(r, out, raced) ==
    /\ ppc[r] = "download"
    /\ raced => out = "timeout"
    /\ IF out = "ok"
       THEN /\ tmp' = [tmp EXCEPT ![r] =
                  AddFile(DelFile(@, "raw_audio.webm.part"), "raw_audio.webm")]
            /\ ytdlp' = [ytdlp EXCEPT ![r] = "exited"]
            /\ ppc' = [ppc EXCEPT ![r] = "transcode_start"]
            /\ UNCHANGED result
       ELSE /\ tmp' = [tmp EXCEPT ![r] = cleanup(@, raced)]
            /\ ytdlp' = [ytdlp EXCEPT ![r] =
                  IF out = "timeout" THEN "running" ELSE "exited"]
            /\ result' = [result EXCEPT ![r] = Failed(
                  IF out = "private" THEN "PrivateVideoError"
                  ELSE IF out = "geo" THEN "GeoBlockedError"
                  ELSE IF out = "toolarge" THEN "downloader.FileTooLargeError"
                  ELSE "DownloadError")]
            /\ ppc' = [ppc EXCEPT ![r] = "returned"]
    /\ UNCHANGED <<purl, ptrack, cached, looked, prior, meta, tools, everTmp,
                   produced, chat, cachefs>>
    /\ UNCHANGED <<uvars, rvars, hvars, evars>>

\* process_audio up to the start of ffmpeg: _check_ffmpeg, the best-effort
\* cover download, and ffmpeg opening its output file
StartTranscode(r, installed, cover) ==
    /\ ppc[r] = "transcode_start"
    /\ IF installed
       THEN /\ tmp' = [tmp EXCEPT ![r] =
                  AddFile(IF cover THEN AddFile(@, "cover.jpg") ELSE @,
                          "output.mp3")]
            /\ tools' = [tools EXCEPT ![r] = @ \cup {"transcode"}]
            /\ ppc' = [ppc EXCEPT ![r] = "transcode"]
            /\ UNCHANGED result
       ELSE /\ tmp' = [tmp EXCEPT ![r] = cleanup(@, FALSE)]
            /\ result' = [result EXCEPT ![r] = Failed("AudioProcessingError")]
            /\ ppc' = [ppc EXCEPT ![r] = "returned"]
            /\ UNCHANGED tools
    /\ UNCHANGED <<purl, ptrack, cached, looked, prior, meta, everTmp, ytdlp,
                   produced, chat, cachefs>>
    /\ UNCHANGED <<uvars, rvars, hvars, evars>>

\* the end of the transcode with the output moved into the cache before its
\* size is validated
EndTranscode_storeFirst(r, out, size, renamed) ==
    /\ ppc[r] = "transcode"
    /\ ppc' = [ppc EXCEPT ![r] = "returned"]
    /\ tmp' = [tmp EXCEPT ![r] = cleanup(@, FALSE)]
    /\ IF out # "ok"
       THEN /\ result' = [result EXCEPT ![r] = Failed("AudioProcessingError")]
            /\ UNCHANGED <<produced, cachefs>>
       ELSE /\ produced' = [produced EXCEPT ![r] = size]
            /\ IF ~renamed
               THEN /\ result' = [result EXCEPT ![r] = Failed("OSError")]
                    /\ UNCHANGED cachefs
               ELSE /\ cachefs' = store_in_cache(cachefs, File(size, TRUE, r),
                                                 ptrack[r][1], ptrack[r][2])
                    /\ result' = [result EXCEPT ![r] =
                          IF _check_file_size(size)
                          THEN Failed("audio_processor.FileTooLargeError")
                          ELSE Returned(cached_path(ptrack[r][1], ptrack[r][2]))]
    /\ UNCHANGED <<purl, ptrack, cached, looked, prior, meta, tools, everTmp,
                   ytdlp, chat>>
    /\ UNCHANGED <<uvars, rvars, hvars, evars>>

\* ffmpeg ends (out: "ok" with an output of the given size, "nonzero",
\* "timeout" followed by proc.kill()); then, without an await in between,
\* _check_file_size, store_in_cache (renamed: whether the rename succeeds)
\* and the finally block of _download_and_process
EndTranscode(r, out, size, renamed) ==
    /\ ppc[r] = "transcode"
    /\ ppc' = [ppc EXCEPT ![r] = "returned"]
    /\ tmp' = [tmp EXCEPT ![r] = cleanup(@, FALSE)]
    /\ IF out # "ok"
       THEN /\ result' = [result EXCEPT ![r] = Failed("AudioProcessingError")]
            /\ UNCHANGED <<produced, cachefs>>
       ELSE /\ produced' = [produced EXCEPT ![r] = size]
            /\ IF _check_file_size(size)
               THEN /\ result' = [result EXCEPT ![r] =
                          Failed("audio_processor.FileTooLargeError")]
                    /\ UNCHANGED cachefs
               ELSE IF ~renamed
               THEN /\ result' = [result EXCEPT ![r] = Failed("OSError")]
                    /\ UNCHANGED cachefs
               ELSE /\ cachefs' = store_in_cache(cachefs, File(size, TRUE, r),
                                                 ptrack[r][1], ptrack[r][2])
                    /\ result' = [result EXCEPT ![r] =
                          Returned(cached_path(ptrack[r][1], ptrack[r][2]))]
    /\ UNCHANGED <<purl, ptrack, cached, looked, prior, meta, tools, everTmp,
                   ytdlp, chat>>
    /\ UNCHANGED <<uvars, rvars, hvars, evars>>

\* handle_url after process_url: answer_audio (sent: whether Telegram took
\* the file; if not, the except Exception clause runs), or the except clause
\* of the exception editing the status message
Deliver(r, sent) ==
    /\ ppc[r] = "returned"
    /\ ppc' = [ppc EXCEPT ![r] = "reported"]
    /\ chat' = [chat EXCEPT ![r] =
          IF result[r].kind = "return"
          THEN IF sent THEN [@ EXCEPT !.audio = TRUE]
                       ELSE [@ EXCEPT !.status = HandlerMessage("TelegramAPIError")]
          ELSE [@ EXCEPT !.status = HandlerMessage(result[r].exc)]]
    /\ UNCHANGED <<purl, ptrack, cached, looked, prior, meta, tools, tmp,
                   everTmp, ytdlp, produced, result, cachefs>>
    /\ UNCHANGED <<uvars, rvars, hvars, evars>>

\* the finally clause of handle_url: session.close() and status_msg.delete()
\* (deleted: whether Telegram deleted the message; a failure is swallowed)
Finish(r, deleted) ==
    /\ ppc[r] = "reported"
    /\ ppc' = [ppc EXCEPT ![r] = "finished"]
    /\ chat' = [chat EXCEPT ![r].status = IF deleted THEN "deleted" ELSE @]
    /\ UNCHANGED <<purl, ptrack, cached, looked, prior, meta, tools, tmp,
                   everTmp, ytdlp, produced, result, cachefs>>
    /\ UNCHANGED <<uvars, rvars, hvars, evars>>

MetadataErrors == {"HttpError", "RuntimeError", "ValueError"}
SearchOutcomes == {"url", "timeout", "nonzero", "not_url", "empty"}
DownloadOutcomes == {"ok", "nofile", "private", "geo", "toolarge", "error", "timeout"}
TranscodeOutcomes == {"ok", "nonzero", "timeout"}

NextPipe ==
    \E r \in Requests :
        \/ Reply(r)
        \/ ResolveIdentity(r)
        \/ \E exc \in MetadataErrors \cup {""} : FetchMetadata(r, exc)
        \/ \E out \in SearchOutcomes : Search(r, out)
        \/ \E installed \in BOOLEAN : StartDownload(r, installed)
        \/ YtdlpWrites(r)
        \/ YtdlpExits(r)
        \/ \E out \in DownloadOutcomes, raced \in BOOLEAN : EndDownload(r, out, raced)
        \/ \E installed \in BOOLEAN, cover \in BOOLEAN : StartTranscode(r, installed, cover)
        \/ \E out \in TranscodeOutcomes, size \in OutputSizes, renamed \in BOOLEAN :
              EndTranscode(r, out, size, renamed)
        \/ \E sent \in BOOLEAN : Deliver(r, sent)
        \/ \E deleted \in BOOLEAN : Finish(r, deleted)

-----------------------------------------------------------------------------
(* Properties of the cache, the pipeline and the handler                    *)

\* process_url has returned or raised
Ended(r) == ppc[r] \in {"returned", "reported", "finished"}

\* the request returned an artifact it produced itself (a cache miss)
CommittedByMiss(r) == result[r].kind = "return" /\ cached[r] = None

\* the step in which request r commits its artifact and returns
Commits(r) == result[r].kind = "none" /\ result'[r].kind = "return" /\ cached[r] = None

\* C14 as stated: in the state a commit leaves, get_cached for the same
\* (platform, track id) returns the committed path, whatever artifact the
\* commit took.
C14_LookupAfterCommit ==
    [][\A r \in Requests :
          Commits(r) =>
             get_cached(cachefs', ptrack[r][1], ptrack[r][2]) = result'[r].path]_vars

\* C14: in the state a commit of a non-empty artifact leaves, get_cached for
\* the same (platform, track id) returns the committed path.
C14_LookupAfterNonEmptyCommit ==
    [][\A r \in Requests :
          (Commits(r) /\ produced'[r] > 0) =>
             /\ result'[r].path = cached_path(ptrack[r][1], ptrack[r][2])
             /\ get_cached(cachefs', ptrack[r][1], ptrack[r][2]) = result'[r].path]_vars

\* a request has committed an artifact of the largest size allowed
C14_Witness ==
    \E r \in Requests :
        /\ CommittedByMiss(r)
        /\ produced[r] = max_file_size_bytes
        /\ cachefs[result[r].path] = File(max_file_size_bytes, TRUE, r)

\* C15: under every interleaving, a file under a final name is the finished
\* output of one of the requests for that track, whole as ffmpeg left it; a
\* path that get_cached returned named a finished, non-empty file; and a
\* request that missed the cache returns only what its own download and
\* transcode produced in its own directory.
C15_NoPartialEntry ==
    /\ \A n \in CacheNames :
          cachefs[n] # NoFile =>
             /\ cachefs[n].complete
             /\ \E r \in Requests :
                   /\ cachefs[n].by = r
                   /\ CommittedByMiss(r)
                   /\ n = cached_path(ptrack[r][1], ptrack[r][2])
                   /\ cachefs[n].size = produced[r]
    /\ \A r \in Requests :
          cached[r] # None =>
             /\ cached[r] = cached_path(ptrack[r][1], ptrack[r][2])
             /\ looked[r].complete
             /\ looked[r].size > 0
    /\ \A r \in Requests :
          CommittedByMiss(r) =>
             /\ {"download", "transcode"} \subseteq tools[r]
             /\ produced[r] >= 0

\* two requests for one track both missed the cache and both committed, with
\* outputs of different sizes; the entry is the output of one of them
C15_Witness ==
    /\ ptrack[1] = ptrack[2]
    /\ CommittedByMiss(1)
    /\ CommittedByMiss(2)
    /\ produced[1] # produced[2]
    /\ cachefs[result[1].path].size \in {produced[1], produced[2]}

\* C16: once _download_and_process has returned or raised, on whichever
\* path, the temp directory of the request does not exist and holds no file.
C16_TempDirRemoved ==
    \A r \in Requests :
        (everTmp[r] /\ Ended(r)) => tmp[r] = NoDir

\* C17: an output above max_file_size_bytes ends the request with
\* FileTooLargeError, with the output gone and nothing committed by it; no
\* file of the cache and no artifact returned on a miss is above the limit.
C17_NoOversizedArtifact ==
    /\ \A r \in Requests :
          (produced[r] > max_file_size_bytes /\ Ended(r)) =>
             /\ result[r] = Failed("audio_processor.FileTooLargeError")
             /\ "output.mp3" \notin tmp[r].files
             /\ \A n \in CacheNames : cachefs[n].by # r
    /\ \A n \in CacheNames : cachefs[n].size <= max_file_size_bytes
    /\ \A r \in Requests :
          CommittedByMiss(r) =>
             /\ produced[r] <= max_file_size_bytes
             /\ cachefs[result[r].path].size <= max_file_size_bytes

\* a request whose output was one byte above the limit has finished
C17_Witness ==
    \E r \in Requests :
        /\ produced[r] = max_file_size_bytes + 1
        /\ ppc[r] = "finished"
        /\ chat[r].status = "too_large"

\* what C18 says of a request
MetadataAlwaysFetched(r) ==
    /\ meta[r] # "none"
    /\ meta[r] = "failed" =>
          /\ result[r].kind = "raise"
          /\ result[r].exc \in MetadataErrors
          /\ result[r].path = None
    /\ result[r].kind = "return" => meta[r] = "ok"

\* C18 as stated: every request for which process_url was called and has
\* ended made the metadata fetch, hit or miss, and a failed fetch made it end
\* with that error and without a path.
C18_MetadataAlwaysFetched ==
    \A r \in Requests : Ended(r) => MetadataAlwaysFetched(r)

\* C18: the same for every request whose track id was extracted (a request
\* whose id cannot be extracted ends with URLValidationError before the
\* cache lookup and the metadata fetch).
C18_MetadataFetchedOnceResolved ==
    \A r \in Requests :
        (Ended(r) /\ ptrack[r] # None) => MetadataAlwaysFetched(r)

\* a request found its artifact in the cache, its metadata fetch failed, and
\* it ended with that error
C18_Witness ==
    \E r \in Requests :
        /\ cached[r] # None
        /\ meta[r] = "failed"
        /\ result[r] = Failed("HttpError")
        /\ ppc[r] = "finished"

\* what C19 says of a request that repeats a completed one
ServedFromCache(r) ==
    /\ cached[r] = cached_path(ptrack[r][1], ptrack[r][2])
    /\ tools[r] = {}
    /\ (Ended(r) /\ meta[r] = "ok") => result[r] = Returned(cached[r])

ErrorTexts == {"private", "geo_blocked", "too_large", "download_failed",
               "processing_failed", "unexpected"}

\* C20: when the handler has finished the user has exactly one outcome:
\* the audio and no error text, or no audio and the error text of the
\* category of the error, still in the chat.
C20_OneVisibleOutcome ==
    \A r \in Requests :
        ppc[r] = "finished" =>
            IF chat[r].audio
            THEN chat[r].status \notin ErrorTexts
            ELSE /\ chat[r].status \in ErrorTexts
                 /\ result[r].kind = "raise" =>
                       chat[r].status = HandlerMessage(result[r].exc)

\* process_url of request r raises in this step
Fails(r) == result[r].kind = "none" /\ result'[r].kind = "raise"

\* process_url of request r returns in this step
Returns(r) == result[r].kind = "none" /\ result'[r].kind = "return"

\* C31: a request whose process_url raised (at the id extraction, the
\* metadata fetch, the search, the download, the transcode or the size
\* validation) has written no file of CACHE_DIR; the step in which it
\* fails, cleanup included, leaves every file of CACHE_DIR and the temp
\* directory of every other request as they were; and CACHE_DIR changes
\* only in the step in which a request returns a freshly made artifact,
\* and then only under the final name of that request's own key.
C31_FailureLeavesCacheUnchanged ==
    /\ [](\A r \in Requests :
            result[r].kind = "raise" =>
                \A n \in CacheNames : cachefs[n].by # r)
    /\ [][ /\ \A r \in Requests :
                Fails(r) =>
                    /\ cachefs' = cachefs
                    /\ \A o \in Requests \ {r} : tmp'[o] = tmp[o]
           /\ cachefs' # cachefs =>
                \E r \in Requests :
                    /\ Returns(r)
                    /\ \A n \in CacheNames \ {cached_path(ptrack[r][1], ptrack[r][2])} :
                          cachefs'[n] = cachefs[n] ]_vars

\* a request failed the size validation and cleaned up while the cache
\* holds, under its key, the artifact the other request committed before
C31_Witness ==
    \E r \in Requests : \E o \in Requests \ {r} :
        /\ result[r] = Failed("audio_processor.FileTooLargeError")
        /\ ~tmp[r].exists
        /\ ptrack[r] # None
        /\ cachefs[cached_path(ptrack[r][1], ptrack[r][2])].by = o
        /\ cachefs[cached_path(ptrack[r][1], ptrack[r][2])].size > 0
        /\ ptrack[o] = ptrack[r]
        /\ result[o].kind = "return"

-----------------------------------------------------------------------------
(* YouTubeService: _iso_duration_to_ms (services/youtube.py)                *)

\* the digits of str(n), n >= 0
RECURSIVE Decimal(_)
Decimal(n) ==
    LET d == <<"0", "1", "2", "3", "4", "5", "6", "7", "8", "9">>
    IN  IF n < 10 THEN <<d[n + 1]>> ELSE Decimal(n \div 10) \o <<d[(n % 10) + 1]>>

\* int(c) for one digit character
DigitValue(c) ==
    CHOOSE v \in 0..9 : <<"0", "1", "2", "3", "4", "5", "6", "7", "8", "9">>[v + 1] = c

\* int(s) for a non-empty sequence of digits
RECURSIVE int(_)
int(s) ==
    IF Len(s) = 1 THEN DigitValue(s[1])
    ELSE 10 * int(SubSeq(s, 1, Len(s) - 1)) + DigitValue(s[Len(s)])

\* one optional group (?:(\d+)X)? of the pattern tried at position i, with
\* re.IGNORECASE: the digits it captured (<<>> when it took nothing) and
\* the position after it
DurationGroup(s, i, unit) ==
    LET n == RunFrom(s, i, Digit)
    IN  IF /\ n >= 1
           /\ i + n <= Len(s)
           /\ lowerChar(s[i + n]) = unit
        THEN [digits |-> SubSeq(s, i, i + n - 1), next |-> i + n + 1]
        ELSE [digits |-> <<>>, next |-> i]

\* the required-components variant of _iso_duration_to_ms
_iso_duration_to_ms_allRequired(duration) ==
    IF ~(Len(duration) >= 2 /\ lower(SubSeq(duration, 1, 2)) = <<"p", "t">>)
    THEN 0
    ELSE LET g1 == DurationGroup(duration, 3, "h")
             g2 == DurationGroup(duration, g1.next, "m")
             g3 == DurationGroup(duration, g2.next, "s")
         IN  IF g1.digits = <<>> \/ g2.digits = <<>> \/ g3.digits = <<>>
             THEN 0
             ELSE (int(g1.digits) * 3600 + int(g2.digits) * 60 + int(g3.digits)) * 1000

\* _iso_duration_to_ms(duration): pattern.match anchors the pattern at the
\* start of the string only; "int(match.group(k) or 0)" is 0 for a group
\* that took nothing
_iso_duration_to_ms(duration) ==
    IF ~(Len(duration) >= 2 /\ lower(SubSeq(duration, 1, 2)) = <<"p", "t">>)
    THEN 0
    ELSE LET g1 == DurationGroup(duration, 3, "h")
             g2 == DurationGroup(duration, g1.next, "m")
             g3 == DurationGroup(duration, g2.next, "s")
             h == IF g1.digits = <<>> THEN 0 ELSE int(g1.digits)
             m == IF g2.digits = <<>> THEN 0 ELSE int(g2.digits)
             s == IF g3.digits = <<>> THEN 0 ELSE int(g3.digits)
         IN  (h * 3600 + m * 60 + s) * 1000

\* the values a component of an explored duration takes; Absent: the
\* component is left out
Absent == -1
MaxComponent == 12
ComponentValues == {Absent, 0, 7} \cup {MaxComponent - 2, MaxComponent - 1, MaxComponent}

\* what stands before and after the components of an explored duration
DurationHeads == { <<"P", "T">>, <<"p", "t">>, <<"P">>, <<"T">>, <<>>,
                   <<"P", "1", "D", "T">>, <<" ", "P", "T">> }
DurationTails == { <<>>, <<"x">>, <<".", "5", "S">>, <<"9">> }

\* the text of a component
ComponentText(n, unit) == IF n = Absent THEN <<>> ELSE Decimal(n) \o <<unit>>

\* the duration string an explored input stands for
DurationText(q) ==
    q.head \o ComponentText(q.h, q.units[1]) \o ComponentText(q.m, q.units[2])
           \o ComponentText(q.s, q.units[3]) \o q.tail

DurationInputs ==
    [head : DurationHeads, h : ComponentValues, m : ComponentValues,
     s : ComponentValues, units : {<<"H", "M", "S">>, <<"h", "m", "s">>, <<"S", "M", "H">>},
     tail : DurationTails]

\* _parse_video has not been called
IdleDuration ==
    /\ dpc = "idle"
    /\ dreq = <<>>
    /\ duration_ms = -1

\* _parse_video is about to call _iso_duration_to_ms
InitDuration ==
    /\ dpc = "call"
    /\ dreq \in DurationInputs
    /\ duration_ms = -1

\* duration_ms = _iso_duration_to_ms(content.get("duration", "PT0S"))
ParseDuration ==
    /\ dpc = "call"
    /\ dpc' = "done"
    /\ \E text \in {DurationText(dreq)} : duration_ms' = _iso_duration_to_ms(text)
    /\ UNCHANGED dreq
    /\ UNCHANGED <<uvars, rvars, hvars, ovars, lvars, gvars>>

NextDuration == ParseDuration

\* a duration string of the form PT[h H][m M][s S]
WellFormedDuration(q) ==
    /\ q.head = <<"P", "T">>
    /\ q.units = <<"H", "M", "S">>
    /\ q.tail = <<>>

\* a string the pattern does not match
Unparseable(q) ==
    q.head \notin {<<"P", "T">>, <<"p", "t">>}

\* the number a component contributes
ComponentNumber(n) == IF n = Absent THEN 0 ELSE n

MetadataCompletes(r) == meta[r] = "none" /\ meta'[r] = "ok"

\* C22: the cache is consulted after the metadata fetch has succeeded: when
\* the fetch of a request comes back, what the request takes for the cache's
\* answer is what get_cached returns in that state.
C22_CacheCheckedAfterMetadata ==
    [][\A r \in Requests :
          MetadataCompletes(r) =>
             cached[r] = get_cached(cachefs', ptrack[r][1], ptrack[r][2])]_vars

\* the timestamps of a bucket are in non-decreasing order
Chronological(bucket) ==
    \A i \in 1..Len(bucket) : \A j \in i..Len(bucket) : bucket[i] <= bucket[j]

\* C29: in every reachable state the bucket of every user is in
\* chronological order; the bucket a check leaves holds no timestamp older
\* than that check's now - window, and a check is rejected only with max
\* entries left after the eviction; and after an accepted check the bucket
\* holds at most max entries, all of them accepted checks of the user inside
\* [now - window, now], the last one being the check itself.
C29_BucketInvariant ==
    \A u \in UserIds :
        LET bucket == Bucket(_buckets, u)
            n == Len(bucket)
        IN  /\ Chronological(bucket)
            /\ lastOf[u].made =>
                  /\ \A i \in 1..n : bucket[i] >= lastOf[u].at - _window
                  /\ ~lastOf[u].ok => n >= _max
            /\ (lastOf[u].made /\ lastOf[u].ok) =>
                  /\ n >= 1 /\ n <= _max
                  /\ \A i \in 1..n : /\ bucket[i] >= lastOf[u].at - _window
                                     /\ bucket[i] <= lastOf[u].at
                  /\ bucket[n] = lastOf[u].at
                  /\ n <= Len(hist[u])
                  /\ bucket = SubSeq(hist[u], Len(hist[u]) - n + 1, Len(hist[u]))

\* a user's accepted check found an expired timestamp at the front of the
\* bucket and left two entries of different times
C29_Witness ==
    \E u \in UserIds :
        /\ lastOf[u].made /\ lastOf[u].ok
        /\ Len(Bucket(_buckets, u)) = 2
        /\ Bucket(_buckets, u)[1] < Bucket(_buckets, u)[2]
        /\ Len(hist[u]) = 3
        /\ hist[u][1] < lastOf[u].at - _window

\* C25: when a request has ended, with its timeout error raised or
\* otherwise, no subprocess it started is still running.
C25_NoSubprocessOutlivesRequest ==
    \A r \in Requests : Ended(r) => ytdlp[r] # "running"

\* the request ended at the search step
EndedAtSearch(r) ==
    /\ "search" \in tools[r]
    /\ "download" \notin tools[r]
    /\ ~everTmp[r]
    /\ Ended(r)

\* C27: a request that ended at the search step, the search having found no
\* source, failed with DownloadError and with no other exception type, and
\* nothing was started after the search.
C27_NoResultIsDownloadError ==
    \A r \in Requests :
        EndedAtSearch(r) =>
            /\ result[r] = Failed("DownloadError")
            /\ tools[r] = {"search"}

\* C30: a key for which get_cached returns a path keeps returning that path:
\* no step of any request changes what get_cached returns for a key once it
\* is a path.
C30_EntriesPermanent ==
    [][\A t \in Tracks :
          get_cached(cachefs, t[1], t[2]) # None =>
             get_cached(cachefs', t[1], t[2]) = get_cached(cachefs, t[1], t[2])]_vars

-----------------------------------------------------------------------------
(* downloader.py: how download_audio ends once yt-dlp has been waited for   *)

\* "p in s" for strings
Contains(s, p) == Find(s, p, 1) # 0

\* _raise_from_ytdlp_error with the geo test before the private test
_raise_from_ytdlp_error_geoFirst(stderr) ==
    CHOOSE r \in {
        IF Contains(low, <<"g", "e", "o">>) \/ Contains(low, <<"n", "o", "t", " ", "a", "v", "a", "i", "l", "a", "b", "l", "e", " ", "i", "n", " ", "y", "o", "u", "r", " ", "c", "o", "u", "n", "t", "r", "y">>)
        THEN Raise("GeoBlockedError", "This content is geo-blocked in the server's region")
        ELSE IF Contains(low, <<"p", "r", "i", "v", "a", "t", "e", " ", "v", "i", "d", "e", "o">>) \/ Contains(low, <<"p", "r", "i", "v", "a", "t", "e">>)
        THEN Raise("PrivateVideoError", "This video is private and cannot be downloaded")
        ELSE IF Contains(low, <<"t", "o", "o", " ", "l", "a", "r", "g", "e">>) \/ Contains(low, <<"f", "i", "l", "e", " ", "i", "s", " ", "t", "o", "o", " ", "l", "a", "r", "g", "e">>)
        THEN Raise("downloader.FileTooLargeError", "Source file is too large")
        ELSE Raise("DownloadError", "yt-dlp error")
      : low \in {lower(stderr)} } : TRUE

\* _raise_from_ytdlp_error(stderr): the exception it raises (it never
\* returns)
_raise_from_ytdlp_error(stderr) ==
    CHOOSE r \in {
        IF Contains(low, <<"p", "r", "i", "v", "a", "t", "e", " ", "v", "i", "d", "e", "o">>) \/ Contains(low, <<"p", "r", "i", "v", "a", "t", "e">>)
        THEN Raise("PrivateVideoError", "This video is private and cannot be downloaded")
        ELSE IF Contains(low, <<"g", "e", "o">>) \/ Contains(low, <<"n", "o", "t", " ", "a", "v", "a", "i", "l", "a", "b", "l", "e", " ", "i", "n", " ", "y", "o", "u", "r", " ", "c", "o", "u", "n", "t", "r", "y">>)
        THEN Raise("GeoBlockedError", "This content is geo-blocked in the server's region")
        ELSE IF Contains(low, <<"t", "o", "o", " ", "l", "a", "r", "g", "e">>) \/ Contains(low, <<"f", "i", "l", "e", " ", "i", "s", " ", "t", "o", "o", " ", "l", "a", "r", "g", "e">>)
        THEN Raise("downloader.FileTooLargeError", "Source file is too large")
        ELSE Raise("DownloadError", "yt-dlp error")
      : low \in {lower(stderr)} } : TRUE

\* download_audio from the end of the wait for yt-dlp: timed_out (wait_for
\* raised TimeoutError), else the exit code and stderr of the process and
\* the files output_path.parent.glob(stem.*) finds
download_audio(timed_out, returncode, stderr, candidates) ==
    IF timed_out THEN Raise("DownloadError", "Download timed out")
    ELSE IF returncode # 0 THEN _raise_from_ytdlp_error(stderr)
    ELSE IF candidates = <<>>
    THEN Raise("DownloadError", "yt-dlp completed but no output file found")
    ELSE Ok(candidates[1])

\* what yt-dlp writes to stderr is put together from two of these lines,
\* each with the class of error it speaks of
StderrLines == {
    [text |-> <<>>, class |-> "none"],
    [text |-> <<"E", "R", "R", "O", "R", ":", " ", "P", "r", "i", "v", "a", "t", "e", " ", "v", "i", "d", "e", "o">>, class |-> "private"],
    [text |-> <<"E", "R", "R", "O", "R", ":", " ", "T", "H", "I", "S", " ", "V", "I", "D", "E", "O", " ", "I", "S", " ", "P", "R", "I", "V", "A", "T", "E">>, class |-> "private"],
    [text |-> <<"E", "R", "R", "O", "R", ":", " ", "g", "e", "o", " ", "r", "e", "s", "t", "r", "i", "c", "t", "e", "d">>, class |-> "geo"],
    [text |-> <<"E", "R", "R", "O", "R", ":", " ", "N", "o", "t", " ", "a", "v", "a", "i", "l", "a", "b", "l", "e", " ", "i", "n", " ", "y", "o", "u", "r", " ", "c", "o", "u", "n", "t", "r", "y">>, class |-> "geo"],
    [text |-> <<"E", "R", "R", "O", "R", ":", " ", "F", "i", "l", "e", " ", "i", "s", " ", "t", "o", "o", " ", "l", "a", "r", "g", "e">>, class |-> "large"],
    [text |-> <<"E", "R", "R", "O", "R", ":", " ", "H", "T", "T", "P", " ", "E", "r", "r", "o", "r", " ", "4", "0", "3">>, class |-> "none"] }

\* the stderr text of an explored run
StderrText(q) == q.first.text \o <<"\n">> \o q.second.text

ExitCodes == {0, 1, 2}
RawFiles == { <<>>, <<"raw_audio.webm">>, <<"raw_audio.m4a", "raw_audio.webm">> }

DownloadRuns ==
    [timed_out : BOOLEAN, returncode : ExitCodes, first : StderrLines,
     second : StderrLines, candidates : RawFiles]

\* download_audio is not running
IdleDownload ==
    /\ dlpc = "idle"
    /\ dlreq = <<>>
    /\ dlres = NoResult

\* download_audio is waiting for yt-dlp
InitDownload ==
    /\ dlpc = "wait"
    /\ dlreq \in DownloadRuns
    /\ dlres = NoResult

\* the wait ends and download_audio returns or raises
DownloadEnds ==
    /\ dlpc = "wait"
    /\ dlpc' = "done"
    /\ \E stderr \in {StderrText(dlreq)} :
          dlres' = download_audio(dlreq.timed_out, dlreq.returncode, stderr,
                                  dlreq.candidates)
    /\ UNCHANGED dlreq
    /\ UNCHANGED <<uvars, rvars, hvars, ovars, dvars, gvars>>

NextDownload == DownloadEnds

\* the classes of error the stderr of a run speaks of
ClassesOf(q) == {q.first.class, q.second.class}

\* the error the precedence private, geo, oversized, generic gives
ByPrecedence(q) ==
    IF "private" \in ClassesOf(q) THEN "PrivateVideoError"
    ELSE IF "geo" \in ClassesOf(q) THEN "GeoBlockedError"
    ELSE IF "large" \in ClassesOf(q) THEN "downloader.FileTooLargeError"
    ELSE "DownloadError"

\* C26: download_audio has not returned normally when yt-dlp exited
\* non-zero: it raised the one error the precedence private, geo, oversized,
\* generic picks from stderr; and when the wait timed out it raised the
\* generic DownloadError with the timeout reason, whatever stderr and the
\* exit code are.
C26_DownloadErrorClassified ==
    dlpc = "done" =>
        /\ dlreq.timed_out => dlres = Raise("DownloadError", "Download timed out")
        /\ (~dlreq.timed_out /\ dlreq.returncode # 0) =>
              /\ ~dlres.ok
              /\ dlres.err = ByPrecedence(dlreq)
        /\ dlres.ok => (~dlreq.timed_out /\ dlreq.returncode = 0)

\* yt-dlp exited non-zero with a stderr that speaks of a geo restriction and
\* then of a private video: PrivateVideoError
C26_Witness ==
    /\ dlpc = "done"
    /\ ~dlreq.timed_out
    /\ dlreq.returncode = 1
    /\ dlreq.first.class = "geo"
    /\ dlreq.second.class = "private"
    /\ dlres.err = "PrivateVideoError"

-----------------------------------------------------------------------------
(* handlers/audio.py: the gates of handle_url, up to the call of process_url *)

\* what the gates of handle_url did with one message: the map of buckets
\* they leave, the calls made in order, how the gates ended ("rate_limited",
\* "invalid", "unsupported": the handler replied and returned; "accepted"),
\* and clean_url and platform once they are known
Gated(buckets, steps, out, check_ok, retry_after, clean_url, platform_) ==
    [buckets |-> buckets, steps |-> steps, out |-> out, check_ok |-> check_ok,
     retry_after |-> retry_after, clean_url |-> clean_url, platform |-> platform_]

\* the gates with a failed validation ignored: the text itself goes on
handle_url_gates_noValidation(buckets, max, window, user_id, now, text) ==
    CHOOSE g \in {
        IF ~c.ok
        THEN Gated(c.buckets, <<"rate_limiter.check">>, "rate_limited", FALSE,
                   c.retry_after, <<>>, "none")
        ELSE CHOOSE h \in {
            CHOOSE k \in {
                Gated(c.buckets,
                      <<"rate_limiter.check", "validate_url", "detect_platform">>,
                      IF p = "none" THEN "unsupported" ELSE "accepted",
                      TRUE, 0, IF v.ok THEN v.val ELSE text, p)
              : p \in {detect_platform(IF v.ok THEN v.val ELSE text)} } : TRUE
          : v \in {validate_url(text)} } : TRUE
      : c \in {check(buckets, max, window, user_id, now)} } : TRUE

\* handle_url from rate_limiter.check(user_id) to detect_platform(clean_url),
\* on text = (message.text or "").strip(); there is no await on the way
\* unless a gate rejects the message
handle_url_gates(buckets, max, window, user_id, now, text) ==
    CHOOSE g \in {
        IF ~c.ok
        THEN Gated(c.buckets, <<"rate_limiter.check">>, "rate_limited", FALSE,
                   c.retry_after, <<>>, "none")
        ELSE CHOOSE h \in {
            IF ~v.ok
            THEN Gated(c.buckets, <<"rate_limiter.check", "validate_url">>,
                       "invalid", TRUE, 0, <<>>, "none")
            ELSE CHOOSE k \in {
                Gated(c.buckets,
                      <<"rate_limiter.check", "validate_url", "detect_platform">>,
                      IF p = "none" THEN "unsupported" ELSE "accepted",
                      TRUE, 0, v.val, p)
              : p \in {detect_platform(v.val)} } : TRUE
          : v \in {validate_url(text)} } : TRUE
      : c \in {check(buckets, max, window, user_id, now)} } : TRUE

\* the users whose messages are followed, and the texts they send
Senders == {1}
GateInputs ==
    [prefix : {P_https, <<"f", "t", "p", ":", "/", "/">>}, user : {<<>>},
     host : {H_open_spotify_com, H_youtu_be,
             <<"e", "v", "i", "l", ".", "c", "o", "m">>,
             <<"1", "2", "7", ".", "0", ".", "0", ".", "1">>},
     port : {<<>>}, tail : {T_track, T_short}, pad : {0}, lead : {0, 1},
     trail : {0}]

\* no message has arrived
IdleGate ==
    /\ gpc = "idle"
    /\ gmsg = <<>>
    /\ gres = <<>>
    /\ gbefore = <<>>
    /\ gsession = FALSE
    /\ gstarted = FALSE

\* the bot has started: the module-level rate_limiter = RateLimiter() with
\* the defaults of the settings, and no message yet
InitGate == IdleRate /\ IdleGate

\* a message arrives and handle_url runs its gates on it
Message(user_id, q) ==
    /\ \E g \in {handle_url_gates(_buckets, _max, _window, user_id, clock,
                                  strip(Text(q)))} :
          /\ gres' = [steps |-> g.steps, out |-> g.out, clean_url |-> g.clean_url,
                      platform |-> g.platform]
          /\ gpc' = IF g.out = "accepted" THEN "accepted" ELSE "replied"
          /\ _buckets' = g.buckets
          /\ hist' = IF g.check_ok THEN [hist EXCEPT ![user_id] = Append(@, clock)]
                     ELSE hist
          /\ lastOf' = [lastOf EXCEPT
                           ![user_id] = CheckAt(clock, g.check_ok, g.retry_after)]
          /\ rejects' = Streak(rejects, cur, lastOf[user_id], user_id, g.check_ok)
    /\ gmsg' = [user_id |-> user_id, text |-> q]
    /\ gbefore' = Bucket(_buckets, user_id)
    /\ cur' = user_id
    /\ prev' = lastOf[user_id]
    /\ gsession' = FALSE
    /\ gstarted' = FALSE
    /\ UNCHANGED <<clock, _max, _window>>
    /\ UNCHANGED <<uvars, hvars, ovars, dvars, lvars>>

\* status_msg = await message.reply(_PROCESSING); session = build_session()
OpenSession ==
    /\ gpc = "accepted"
    /\ gpc' = "session"
    /\ gsession' = TRUE
    /\ UNCHANGED <<gmsg, gres, gbefore, gstarted>>
    /\ UNCHANGED <<uvars, rvars, hvars, ovars, dvars, lvars>>

\* await Orchestrator(session).process_url(clean_url, platform): from here
\* on the metadata fetch and the tools may start
CallOrchestrator ==
    /\ gpc = "session"
    /\ gpc' = "pipeline"
    /\ gstarted' = TRUE
    /\ UNCHANGED <<gmsg, gres, gbefore, gsession>>
    /\ UNCHANGED <<uvars, rvars, hvars, ovars, dvars, lvars>>

NextGate ==
    \/ Tick
    \/ \E u \in Senders, q \in GateInputs : Message(u, q)
    \/ OpenSession
    \/ CallOrchestrator

\* a text that is a URL of an allowed platform
GoodText(q) == q.prefix = P_https /\ q.host \in {H_open_spotify_com, H_youtu_be}

\* C23: the validator runs before the rate limiter: a message whose text is
\* rejected by validation leaves the sender's bucket as it was, and
\* rate_limiter.check has run only for a message whose text validated.
C23_ValidatedBeforeRateLimited ==
    gpc # "idle" =>
        /\ ~GoodText(gmsg.text) =>
              /\ gres.out = "invalid"
              /\ Bucket(_buckets, gmsg.user_id) = gbefore
        /\ (\E i \in 1..Len(gres.steps) : gres.steps[i] = "rate_limiter.check") =>
              GoodText(gmsg.text)

\* C24: a session has been built or process_url called for a message only
\* if validate_url accepted its text and the rate limiter accepted its
\* sender (fewer than max accepted messages of the sender lay in the window),
\* both before the session was built.
C24_NoEgressBeforeGates ==
    (gsession \/ gstarted) =>
        /\ GoodText(gmsg.text)
        /\ gres.out = "accepted"
        /\ gres.steps = <<"rate_limiter.check", "validate_url", "detect_platform">>
        /\ gres.platform \in {"spotify", "youtube"}
        /\ validate_url(gres.clean_url).ok
        /\ lastOf[gmsg.user_id].ok
        /\ Len(gbefore) < _max
        /\ Cardinality(Recent(gmsg.user_id, Len(hist[gmsg.user_id]) - 1,
                              lastOf[gmsg.user_id].at)) < _max

\* the last message the limit lets through has reached process_url
C24_Witness ==
    /\ gstarted
    /\ gsession
    /\ Len(hist[gmsg.user_id]) = _max
    /\ gmsg.text.host = H_youtu_be
    /\ gmsg.text.lead = 1

-----------------------------------------------------------------------------
(* Specifications                                                           *)

\* the parser, the downloader's classification and the gates are not in use
IdleExtra == IdleDuration /\ IdleDownload /\ IdleGate

\* the validator run on one inbound text
InitValidator == InitUrl /\ IdleRate /\ IdleHttp /\ IdlePipe /\ IdleExtra
SpecUrl == InitValidator /\ [][NextUrl]_vars

\* one RateLimiter and the checks of the users against a moving clock
InitLimiter == InitRate /\ IdleUrl /\ IdleHttp /\ IdlePipe /\ IdleExtra
SpecRate == InitLimiter /\ [][NextRate]_vars

\* one call of fetch_json.  Every await of the call returns: the session's
\* total timeout ends a request that gets no answer with asyncio.TimeoutError
\* and asyncio.sleep returns after a finite wait, so a step that is possible
\* is eventually taken.
InitFetch == InitHttp /\ IdleUrl /\ IdleRate /\ IdlePipe /\ IdleExtra
SpecHttp == InitFetch /\ [][NextHttp]_vars /\ WF_vars(NextHttp)

\* two messages that passed the gates, handled by concurrent tasks of one
\* event loop over one CACHE_DIR
InitRequests == InitPipe /\ IdleUrl /\ IdleRate /\ IdleHttp /\ IdleExtra
SpecPipe == InitRequests /\ [][NextPipe]_vars

\* the duration parser, over the explored duration strings
InitParser == InitDuration /\ IdleUrl /\ IdleRate /\ IdleHttp /\ IdlePipe /\ IdleDownload /\ IdleGate
SpecDuration == InitParser /\ [][NextDuration]_vars

\* the end of one download_audio call, over the explored runs of yt-dlp
InitDownloadEnd == InitDownload /\ IdleUrl /\ IdleRate /\ IdleHttp /\ IdlePipe /\ IdleDuration /\ IdleGate
SpecDownload == InitDownloadEnd /\ [][NextDownload]_vars

\* the messages of one user, one after the other, through the gates of
\* handle_url
InitHandler == InitGate /\ IdleUrl /\ IdleHttp /\ IdlePipe /\ IdleDuration /\ IdleDownload
SpecGate == InitHandler /\ [][NextGate]_vars

=============================================================================
